---- MODULE Spec2Model ----
(***************************************************************************)
(* Verification model of myndgera's Vulkan device layer                    *)
(* (src/vulkan/device.rs) and shader include resolver                      *)
(* (src/shader_compiler.rs).                                               *)
(*                                                                         *)
(* The module holds one state machine per subsystem.  Every subsystem has  *)
(* its own variables and its own next-state relation; a specification      *)
(* SpecX runs the actions of subsystem X and leaves the others at their    *)
(* initial value.                                                          *)
(***************************************************************************)
EXTENDS Integers, Sequences, FiniteSets, TLC

VARIABLES
    \* ---- device negotiation (Device::create_with_queues) ----
    instance_devices,   \* what the instance enumerated at the last call
    negotiation,        \* outcome of the last create_with_queues call
    \* ---- command recording ----
    cmds,               \* command buffer -> the commands recorded on it, in order
    call,               \* the recording helper called last, with its arguments
    panicked,           \* a panic!() was hit: the thread is gone
    \* ---- scoped debug markers ----
    guards,             \* the live ScopedMarker values, oldest first
    next_marker,        \* number of markers created so far
    lifo,               \* every guard so far was dropped innermost-first
    last_exit,          \* how the last scope holding guards was left
    \* ---- allocator ----
    at,                 \* thread -> the allocator call it is in, and where
    allocator_mutex,    \* Device::allocator: "unlocked" or the thread holding it
    allocator,          \* the blocks the gpu_allocator Allocator counts as live
    owned,              \* thread -> the Allocation values it owns
    returned,           \* thread -> what its last call returned
    next_alloc,         \* allocations handed out so far
    \* ---- one_time_submit ----
    ots,                \* the call in progress: next step, its fence and command buffer
    fences,             \* live fences of the device
    pool,               \* live command buffers of Device::command_pool
    queue,              \* what was submitted to the main queue, in order
    signalled,          \* fences the GPU has signalled
    ots_returns,        \* what each finished call returned
    next_handle,        \* handles created so far
    \* ---- shader include resolution ----
    include_mapping,    \* Watcher::include_mapping: path -> set of ShaderSource
    watched,            \* the paths Watcher::watcher holds a watch on
    compiling,          \* the compilation in progress and what it has read
    include,            \* the last call of the include callback and its result
    include_panicked,   \* the include callback panicked
    n_compiles,         \* compile() calls so far
    n_includes,         \* include callbacks so far
    \* ---- resources and the device's lifetime ----
    vk_objects,         \* live API handles (images, buffers) of the device
    vk_allocations,     \* the allocations the Allocator counts as live
    image_owners,       \* the (image, memory) pairs create_image returned
    live_buffers,       \* the live Buffer and BufferTyped values
    scoped_markers,     \* the live ScopedMarker values
    arc_device,         \* who holds a strong reference of Arc<Device>
    api_log,            \* calls made on the device and the allocator, in order
    device_drops,       \* how often Drop for Device has run
    next_vk,            \* objects created so far
    \* ---- the locks of the include callback ----
    resolver,           \* the include callback in progress: where it is, what it holds
    watcher_thread,     \* the watcher's event thread: where it is, what it holds
    include_mapping_mutex,  \* Watcher::include_mapping: "unlocked" or its holder
    watcher_mutex,      \* Watcher::watcher: "unlocked" or its holder
    n_resolutions       \* include callbacks started so far

negotiationVars == <<instance_devices, negotiation>>
commandVars == <<cmds, call, panicked>>
markerVars == <<guards, next_marker, lifo, last_exit>>

allocatorVars == <<at, allocator_mutex, allocator, owned, returned, next_alloc>>

submitVars == <<ots, fences, pool, queue, signalled, ots_returns, next_handle>>

includeVars == <<include_mapping, watched, compiling, include, include_panicked,
                 n_compiles, n_includes>>

resourceVars == <<vk_objects, vk_allocations, image_owners, live_buffers, scoped_markers,
                  arc_device, api_log, device_drops, next_vk>>

lockVars == <<resolver, watcher_thread, include_mapping_mutex, watcher_mutex, n_resolutions>>

vars == <<negotiationVars, commandVars, markerVars, allocatorVars, submitVars, includeVars,
          resourceVars, lockVars>>

\* Option<T> of the Rust source.
None == [some |-> FALSE]
Some(x) == [some |-> TRUE, value |-> x]

Min(S) == CHOOSE x \in S : \A y \in S : x <= y

(***************************************************************************)
(* 1. Device negotiation                                                   *)
(***************************************************************************)

\* Bounds of the negotiation fixtures.
MaxDevices == 2
MaxFamilies == 2

\* device.rs:51-66, the names behind the ash NAME constants.
required_device_extensions ==
    << "VK_KHR_swapchain",
       "VK_EXT_graphics_pipeline_library",
       "VK_KHR_pipeline_library",
       "VK_KHR_dynamic_rendering",
       "VK_EXT_extended_dynamic_state2",
       "VK_EXT_extended_dynamic_state",
       "VK_KHR_synchronization2",
       "VK_KHR_buffer_device_address",
       "VK_KHR_create_renderpass2",
       "VK_EXT_descriptor_indexing",
       "VK_KHR_format_feature_flags2",
       "VK_EXT_shader_atomic_float",
       "VK_EXT_scalar_block_layout" >>

\* device.rs:67
required_device_extensions_set ==
    { required_device_extensions[i] : i \in 1..Len(required_device_extensions) }

\* vk::QueueFlags bits the negotiation looks at, plus one it ignores.
QF == {"GRAPHICS", "COMPUTE", "TRANSFER"}

\* A queue family as the driver reports it: its flags, and what
\* surface.get_device_surface_support answers for it.
QueueFamily == [queue_flags : SUBSET QF, surface_support : BOOLEAN]

\* VkResult of enumerate_device_extension_properties for a device.
ExtOk(names) == [ok |-> TRUE, names |-> names]
ExtErr == [ok |-> FALSE, names |-> {}]

\* device.rs:88-101: first family with GRAPHICS|COMPUTE|TRANSFER and surface
\* support; family indices are 0-based as in the source.
main_queue_idx(queue_properties) ==
    LET ok == { i \in 1..Len(queue_properties) :
                  /\ {"GRAPHICS", "COMPUTE", "TRANSFER"} \subseteq queue_properties[i].queue_flags
                  /\ queue_properties[i].surface_support }
    IN  IF ok = {} THEN None ELSE Some(Min(ok) - 1)

transfer_queue_idx_AnyTransfer(queue_properties, main) ==
    LET ok == { i \in 1..Len(queue_properties) :
                  /\ Some(i - 1) /= main
                  /\ "TRANSFER" \in queue_properties[i].queue_flags }
    IN  IF ok = {} THEN None ELSE Some(Min(ok) - 1)

\* device.rs:103-111: first family other than the main one with TRANSFER and
\* without GRAPHICS.
transfer_queue_idx(queue_properties, main) ==
    LET ok == { i \in 1..Len(queue_properties) :
                  /\ Some(i - 1) /= main
                  /\ "TRANSFER" \in queue_properties[i].queue_flags
                  /\ "GRAPHICS" \notin queue_properties[i].queue_flags }
    IN  IF ok = {} THEN None ELSE Some(Min(ok) - 1)

\* device.rs:73-114: the closure given to find_map, for one physical device.
device_candidate(device) ==
    IF ~device.extensions.ok THEN None                              \* .ok()? at :75
    ELSE IF required_device_extensions_set \ device.extensions.names /= {} THEN None
    ELSE LET main == main_queue_idx(device.queue_properties)
             transfer == transfer_queue_idx(device.queue_properties, main)
         IN  IF ~transfer.some THEN None                            \* ? at :111
             ELSE IF ~main.some THEN None                           \* main_queue_idx? at :113
             ELSE Some([main_queue_family_idx |-> main.value,
                        transfer_queue_family_idx |-> transfer.value])

find_device_Last(devices) ==
    LET ok == { i \in 1..Len(devices) : device_candidate(devices[i]).some }
    IN  IF ok = {} THEN None
        ELSE LET i == CHOOSE x \in ok : \A y \in ok : y <= x
             IN  Some([pdevice |-> i,
                       main_queue_family_idx |-> device_candidate(devices[i]).value.main_queue_family_idx,
                       transfer_queue_family_idx |-> device_candidate(devices[i]).value.transfer_queue_family_idx])

\* device.rs:70-115: devices.into_iter().find_map(..): the first device, in
\* enumeration order, for which the closure returns Some.
find_device(devices) ==
    LET ok == { i \in 1..Len(devices) : device_candidate(devices[i]).some }
    IN  IF ok = {} THEN None
        ELSE LET i == Min(ok)
             IN  Some([pdevice |-> i,
                       main_queue_family_idx |-> device_candidate(devices[i]).value.main_queue_family_idx,
                       transfer_queue_family_idx |-> device_candidate(devices[i]).value.transfer_queue_family_idx])

NoNegotiation == [status |-> "none"]

\* device.rs:47-233.  enumerate_ok: enumerate_physical_devices succeeded (:69);
\* create_ok: create_device, Allocator::new and create_command_pool succeeded
\* (:183, :196, :210).
create_with_queues(devices, enumerate_ok, create_ok) ==
    /\ negotiation = NoNegotiation            \* called once, at start-up
    /\ UNCHANGED <<commandVars, markerVars, allocatorVars, submitVars, includeVars, resourceVars, lockVars>>
    /\ instance_devices' = devices
    /\ negotiation' =
         IF ~enumerate_ok THEN [status |-> "Err", error |-> "enumerate_physical_devices"]
         ELSE LET found == find_device(devices)
              IN  IF ~found.some
                  THEN [status |-> "Err", error |-> "Failed to find suitable device."]
                  ELSE IF ~create_ok
                  THEN [status |-> "Err", error |-> "device creation"]
                  ELSE [status |-> "Ok",
                        physical_device |-> found.value.pdevice,
                        main_queue_family_idx |-> found.value.main_queue_family_idx,
                        transfer_queue_family_idx |-> found.value.transfer_queue_family_idx]

\* --- fixtures ---
SeqsUpTo(S, n) == UNION { [1..k -> S] : k \in 0..n }

ExtensionFixtures ==
    { ExtOk(required_device_extensions_set),
      ExtOk(required_device_extensions_set \cup {"VK_KHR_ray_query"}),
      ExtOk(required_device_extensions_set \ {"VK_EXT_scalar_block_layout"}),
      ExtErr }

FamilyFixtures ==
    { << >>,
      << [queue_flags |-> {"GRAPHICS", "COMPUTE", "TRANSFER"}, surface_support |-> TRUE] >>,
      << [queue_flags |-> {"TRANSFER"}, surface_support |-> FALSE] >>,
      << [queue_flags |-> {"GRAPHICS", "COMPUTE", "TRANSFER"}, surface_support |-> TRUE],
         [queue_flags |-> {"COMPUTE", "TRANSFER"}, surface_support |-> FALSE] >>,
      << [queue_flags |-> {"TRANSFER"}, surface_support |-> TRUE],
         [queue_flags |-> {"GRAPHICS", "COMPUTE", "TRANSFER"}, surface_support |-> TRUE] >>,
      << [queue_flags |-> {"GRAPHICS", "COMPUTE", "TRANSFER"}, surface_support |-> FALSE],
         [queue_flags |-> {"TRANSFER"}, surface_support |-> FALSE] >> }

DeviceFixtures == [extensions : ExtensionFixtures, queue_properties : FamilyFixtures]

\* A call on a machine with up to MaxDevices physical devices.
NegotiateDevices ==
    \E devices \in SeqsUpTo(DeviceFixtures, MaxDevices), enumerate_ok, create_ok \in BOOLEAN :
        create_with_queues(devices, enumerate_ok, create_ok)

\* A call on a machine with one capable device and any queue families.
NegotiateFamilies ==
    \E queue_properties \in SeqsUpTo(QueueFamily, MaxFamilies),
       extensions \in {ExtOk(required_device_extensions_set),
                       ExtOk(required_device_extensions_set \ {"VK_KHR_swapchain"})} :
        create_with_queues(<< [extensions |-> extensions,
                               queue_properties |-> queue_properties] >>, TRUE, TRUE)

NegotiationInit ==
    /\ instance_devices = << >>
    /\ negotiation = NoNegotiation

NextNegotiation == NegotiateDevices \/ NegotiateFamilies

\* --- what the negotiation is required to deliver, stated on the fixture ---

HasMainFamily(device) ==
    \E i \in 1..Len(device.queue_properties) :
        /\ "GRAPHICS" \in device.queue_properties[i].queue_flags
        /\ "COMPUTE" \in device.queue_properties[i].queue_flags
        /\ "TRANSFER" \in device.queue_properties[i].queue_flags
        /\ device.queue_properties[i].surface_support

HasTransferFamily(device) ==
    \E i \in 1..Len(device.queue_properties) :
        /\ "TRANSFER" \in device.queue_properties[i].queue_flags
        /\ "GRAPHICS" \notin device.queue_properties[i].queue_flags

Qualifies(device) ==
    /\ device.extensions.ok
    /\ \A i \in 1..Len(required_device_extensions) :
           required_device_extensions[i] \in device.extensions.names
    /\ HasMainFamily(device)
    /\ HasTransferFamily(device)

\* C1: negotiation is first-match.  When create_with_queues returns a device it
\* is the first one in enumeration order that has all 13 required extensions, a
\* qualifying main family and a qualifying transfer family, and no earlier
\* device qualifies; when no device qualifies the call returns an error, and
\* the "no suitable device" error is returned only then.
C1_FirstMatch ==
    negotiation.status /= "none" =>
        LET qualifying == { i \in 1..Len(instance_devices) : Qualifies(instance_devices[i]) }
        IN  /\ Len(required_device_extensions) = 13
            /\ Cardinality(required_device_extensions_set) = 13
            /\ negotiation.status = "Ok" =>
                   /\ negotiation.physical_device \in qualifying
                   /\ \A j \in 1..(negotiation.physical_device - 1) : j \notin qualifying
            /\ qualifying = {} => negotiation.status = "Err"
            /\ (negotiation.status = "Err"
                    /\ negotiation.error = "Failed to find suitable device.")
                   => qualifying = {}

\* The second of two devices is chosen: the first one lacks an extension.
C1_Witness ==
    /\ negotiation.status = "Ok"
    /\ Len(instance_devices) = 2
    /\ negotiation.physical_device = 2
    /\ instance_devices[1].extensions.ok
    /\ HasMainFamily(instance_devices[1])
    /\ HasTransferFamily(instance_devices[1])

\* C2: a successful negotiation returns distinct family indices; the main
\* family has GRAPHICS, COMPUTE and TRANSFER and presents to the surface; the
\* transfer family has TRANSFER and lacks GRAPHICS.
C2_QueueFamilies ==
    negotiation.status = "Ok" =>
        LET families == instance_devices[negotiation.physical_device].queue_properties
            main == negotiation.main_queue_family_idx
            transfer == negotiation.transfer_queue_family_idx
        IN  /\ main /= transfer
            /\ main \in 0..(Len(families) - 1)
            /\ transfer \in 0..(Len(families) - 1)
            /\ {"GRAPHICS", "COMPUTE", "TRANSFER"} \subseteq families[main + 1].queue_flags
            /\ families[main + 1].surface_support
            /\ "TRANSFER" \in families[transfer + 1].queue_flags
            /\ "GRAPHICS" \notin families[transfer + 1].queue_flags

\* The main family comes after a graphics family that cannot present, and the
\* transfer family is found behind both.
C2_Witness ==
    /\ negotiation.status = "Ok"
    /\ negotiation.main_queue_family_idx = 1
    /\ negotiation.transfer_queue_family_idx = 0
    /\ instance_devices[1].queue_properties[1].surface_support

(***************************************************************************)
(* 2. Command recording: layout tables, image_transition, blit_image       *)
(***************************************************************************)

\* Bound: opaque commands (draw) already on a command buffer before the call.
MaxPrior == 1

CommandBuffers == {"cb1", "cb2"}
Images == {"img1", "img2"}

\* The layouts get_pipeline_stage_flags / get_access_flags have an arm for.
MatchedLayouts ==
    { "UNDEFINED", "PREINITIALIZED", "TRANSFER_DST_OPTIMAL", "TRANSFER_SRC_OPTIMAL",
      "COLOR_ATTACHMENT_OPTIMAL", "DEPTH_ATTACHMENT_OPTIMAL",
      "FRAGMENT_SHADING_RATE_ATTACHMENT_OPTIMAL_KHR", "SHADER_READ_ONLY_OPTIMAL",
      "PRESENT_SRC_KHR", "GENERAL" }

\* vk::ImageLayout values a caller can pass: the ones above and some of the
\* others the API defines.
ImageLayout ==
    MatchedLayouts \cup
    { "DEPTH_STENCIL_ATTACHMENT_OPTIMAL",
      "DEPTH_READ_ONLY_STENCIL_ATTACHMENT_OPTIMAL",
      "ATTACHMENT_OPTIMAL" }

Flags(set) == [panic |-> FALSE, flags |-> set]
Panic(msg) == [panic |-> TRUE, flags |-> {}, msg |-> msg]

\* device.rs:874-898
get_pipeline_stage_flags(layout) ==
    CASE layout = "UNDEFINED" -> Flags({"TOP_OF_PIPE"})
      [] layout = "PREINITIALIZED" -> Flags({"HOST"})
      [] layout \in {"TRANSFER_DST_OPTIMAL", "TRANSFER_SRC_OPTIMAL"} -> Flags({"TRANSFER"})
      [] layout = "COLOR_ATTACHMENT_OPTIMAL" -> Flags({"COLOR_ATTACHMENT_OUTPUT"})
      [] layout = "DEPTH_ATTACHMENT_OPTIMAL" ->
             Flags({"EARLY_FRAGMENT_TESTS"} \cup {"LATE_FRAGMENT_TESTS"})
      [] layout = "FRAGMENT_SHADING_RATE_ATTACHMENT_OPTIMAL_KHR" ->
             Flags({"FRAGMENT_SHADING_RATE_ATTACHMENT_KHR"})
      [] layout = "SHADER_READ_ONLY_OPTIMAL" ->
             Flags({"VERTEX_SHADER"} \cup {"FRAGMENT_SHADER"})
      [] layout = "PRESENT_SRC_KHR" -> Flags({"BOTTOM_OF_PIPE"})
      [] layout = "GENERAL" -> Flags({"ALL_COMMANDS"})
      [] OTHER -> Panic("Unknown layout for pipeline stage")

get_access_flags_Default(layout) ==
    CASE layout \in {"UNDEFINED", "PRESENT_SRC_KHR"} -> Flags({})
      [] layout = "PREINITIALIZED" -> Flags({"HOST_WRITE"})
      [] layout = "COLOR_ATTACHMENT_OPTIMAL" ->
             Flags({"COLOR_ATTACHMENT_READ"} \cup {"COLOR_ATTACHMENT_WRITE"})
      [] layout = "DEPTH_ATTACHMENT_OPTIMAL" ->
             Flags({"DEPTH_STENCIL_ATTACHMENT_READ"} \cup {"DEPTH_STENCIL_ATTACHMENT_WRITE"})
      [] layout = "FRAGMENT_SHADING_RATE_ATTACHMENT_OPTIMAL_KHR" ->
             Flags({"FRAGMENT_SHADING_RATE_ATTACHMENT_READ_KHR"})
      [] layout = "SHADER_READ_ONLY_OPTIMAL" ->
             Flags({"SHADER_READ"} \cup {"INPUT_ATTACHMENT_READ"})
      [] layout = "TRANSFER_SRC_OPTIMAL" -> Flags({"TRANSFER_READ"})
      [] layout = "TRANSFER_DST_OPTIMAL" -> Flags({"TRANSFER_WRITE"})
      [] layout = "GENERAL" -> Flags({"SHADER_READ"} \cup {"SHADER_WRITE"})
      [] OTHER -> Flags({})

\* device.rs:900-922
get_access_flags(layout) ==
    CASE layout \in {"UNDEFINED", "PRESENT_SRC_KHR"} -> Flags({})
      [] layout = "PREINITIALIZED" -> Flags({"HOST_WRITE"})
      [] layout = "COLOR_ATTACHMENT_OPTIMAL" ->
             Flags({"COLOR_ATTACHMENT_READ"} \cup {"COLOR_ATTACHMENT_WRITE"})
      [] layout = "DEPTH_ATTACHMENT_OPTIMAL" ->
             Flags({"DEPTH_STENCIL_ATTACHMENT_READ"} \cup {"DEPTH_STENCIL_ATTACHMENT_WRITE"})
      [] layout = "FRAGMENT_SHADING_RATE_ATTACHMENT_OPTIMAL_KHR" ->
             Flags({"FRAGMENT_SHADING_RATE_ATTACHMENT_READ_KHR"})
      [] layout = "SHADER_READ_ONLY_OPTIMAL" ->
             Flags({"SHADER_READ"} \cup {"INPUT_ATTACHMENT_READ"})
      [] layout = "TRANSFER_SRC_OPTIMAL" -> Flags({"TRANSFER_READ"})
      [] layout = "TRANSFER_DST_OPTIMAL" -> Flags({"TRANSFER_WRITE"})
      [] layout = "GENERAL" -> Flags({"SHADER_READ"} \cup {"SHADER_WRITE"})
      [] OTHER -> Panic("Unknown layout for access mask")

aspect_mask_NewOnly(old_layout, new_layout) ==
    IF \/ new_layout = "DEPTH_ATTACHMENT_OPTIMAL"
       \/ new_layout = "DEPTH_READ_ONLY_STENCIL_ATTACHMENT_OPTIMAL"
    THEN "DEPTH" ELSE "COLOR"

\* device.rs:316-323
aspect_mask(old_layout, new_layout) ==
    IF \/ old_layout = "DEPTH_ATTACHMENT_OPTIMAL"
       \/ new_layout = "DEPTH_ATTACHMENT_OPTIMAL"
       \/ new_layout = "DEPTH_READ_ONLY_STENCIL_ATTACHMENT_OPTIMAL"
    THEN "DEPTH" ELSE "COLOR"

\* The result of recording on a command buffer: its commands afterwards, and
\* whether the helper panicked on the way.
Recorded(buffer) == [cmds |-> buffer, panic |-> FALSE]
Aborted(buffer) == [cmds |-> buffer, panic |-> TRUE]

image_transition_SwappedMasks(buffer, image, old_layout, new_layout) ==
    LET src_stage_mask == get_pipeline_stage_flags(new_layout)
        dst_stage_mask == get_pipeline_stage_flags(old_layout)
        src_access_mask == get_access_flags(new_layout)
        dst_access_mask == get_access_flags(old_layout)
    IN  IF src_stage_mask.panic \/ dst_stage_mask.panic
           \/ src_access_mask.panic \/ dst_access_mask.panic
        THEN Aborted(buffer)
        ELSE Recorded(Append(buffer,
                 [op |-> "pipeline_barrier2",
                  image |-> image,
                  old_layout |-> old_layout,
                  new_layout |-> new_layout,
                  src_stage_mask |-> src_stage_mask.flags,
                  dst_stage_mask |-> dst_stage_mask.flags,
                  src_access_mask |-> src_access_mask.flags,
                  dst_access_mask |-> dst_access_mask.flags,
                  aspect_mask |-> aspect_mask(old_layout, new_layout)]))

\* device.rs:309-347.  The four lookups (:331-334) run before the barrier is
\* recorded (:346); a panic in any of them leaves the buffer as it was.
image_transition(buffer, image, old_layout, new_layout) ==
    LET src_stage_mask == get_pipeline_stage_flags(old_layout)
        dst_stage_mask == get_pipeline_stage_flags(new_layout)
        src_access_mask == get_access_flags(old_layout)
        dst_access_mask == get_access_flags(new_layout)
    IN  IF src_stage_mask.panic \/ dst_stage_mask.panic
           \/ src_access_mask.panic \/ dst_access_mask.panic
        THEN Aborted(buffer)
        ELSE Recorded(Append(buffer,
                 [op |-> "pipeline_barrier2",
                  image |-> image,
                  old_layout |-> old_layout,
                  new_layout |-> new_layout,
                  src_stage_mask |-> src_stage_mask.flags,
                  dst_stage_mask |-> dst_stage_mask.flags,
                  src_access_mask |-> src_access_mask.flags,
                  dst_access_mask |-> dst_access_mask.flags,
                  aspect_mask |-> aspect_mask(old_layout, new_layout)]))

cmd_blit_image2(buffer, src_image, dst_image) ==
    Recorded(Append(buffer,
        [op |-> "blit_image2",
         src_image |-> src_image,
         src_image_layout |-> "TRANSFER_SRC_OPTIMAL",
         dst_image |-> dst_image,
         dst_image_layout |-> "TRANSFER_DST_OPTIMAL",
         filter |-> "LINEAR"]))

blit_image_RestoreVerbatim(buffer, src_image, src_orig_layout, dst_image, dst_orig_layout) ==
    LET t1(b) == image_transition(b, src_image, src_orig_layout, "TRANSFER_SRC_OPTIMAL")
        t2(b) == image_transition(b, dst_image, dst_orig_layout, "TRANSFER_DST_OPTIMAL")
        bl(b) == cmd_blit_image2(b, src_image, dst_image)
        t3(b) == image_transition(b, src_image, "TRANSFER_SRC_OPTIMAL", src_orig_layout)
        t4(b) == image_transition(b, dst_image, "TRANSFER_DST_OPTIMAL", dst_orig_layout)
        \* a panic ends the call where it happens
        r1 == t1(buffer)
        r2 == IF r1.panic THEN r1 ELSE t2(r1.cmds)
        r3 == IF r2.panic THEN r2 ELSE bl(r2.cmds)
        r4 == IF r3.panic THEN r3 ELSE t3(r3.cmds)
    IN  IF r4.panic THEN r4 ELSE t4(r4.cmds)

\* device.rs:481-555
blit_image(buffer, src_image, src_orig_layout, dst_image, dst_orig_layout) ==
    LET t1(b) == image_transition(b, src_image, src_orig_layout, "TRANSFER_SRC_OPTIMAL")
        t2(b) == image_transition(b, dst_image, dst_orig_layout, "TRANSFER_DST_OPTIMAL")
        bl(b) == cmd_blit_image2(b, src_image, dst_image)
        t3(b) == image_transition(b, src_image, "TRANSFER_SRC_OPTIMAL", src_orig_layout)
        t4(b) == image_transition(b, dst_image, "TRANSFER_DST_OPTIMAL",
                     IF dst_orig_layout = "UNDEFINED" THEN "GENERAL" ELSE dst_orig_layout)
        \* a panic ends the call where it happens
        r1 == t1(buffer)
        r2 == IF r1.panic THEN r1 ELSE t2(r1.cmds)
        r3 == IF r2.panic THEN r2 ELSE bl(r2.cmds)
        r4 == IF r3.panic THEN r3 ELSE t3(r3.cmds)
    IN  IF r4.panic THEN r4 ELSE t4(r4.cmds)

NoCall == [fn |-> "none"]

\* device.rs:677-694: Device::draw records one command and nothing else.
Draw(cb) ==
    /\ ~panicked
    /\ call = NoCall
    /\ Len(cmds[cb]) < MaxPrior
    /\ cmds' = [cmds EXCEPT ![cb] = Append(@, [op |-> "draw"])]
    /\ UNCHANGED <<call, panicked, negotiationVars, markerVars, allocatorVars, submitVars, includeVars, resourceVars, lockVars>>

\* The lookups of device.rs:331-334, for one layout.
LayoutLookup(layout) ==
    /\ ~panicked
    /\ call = NoCall
    /\ call' = [fn |-> "lookup",
                layout |-> layout,
                stage |-> get_pipeline_stage_flags(layout),
                access |-> get_access_flags(layout)]
    /\ panicked' = (get_pipeline_stage_flags(layout).panic \/ get_access_flags(layout).panic)
    /\ UNCHANGED <<cmds, negotiationVars, markerVars, allocatorVars, submitVars, includeVars, resourceVars, lockVars>>

\* A call of Device::image_transition on command buffer cb.
ImageTransition(cb, image, old_layout, new_layout) ==
    /\ ~panicked
    /\ call = NoCall
    /\ LET r == image_transition(cmds[cb], image, old_layout, new_layout)
       IN  /\ cmds' = [cmds EXCEPT ![cb] = r.cmds]
           /\ panicked' = r.panic
    /\ call' = [fn |-> "image_transition", cb |-> cb, image |-> image,
                old_layout |-> old_layout, new_layout |-> new_layout,
                mark |-> Len(cmds[cb])]
    /\ UNCHANGED <<negotiationVars, markerVars, allocatorVars, submitVars, includeVars, resourceVars, lockVars>>

\* A call of Device::blit_image on command buffer cb.
BlitImage(cb, src_image, src_orig_layout, dst_image, dst_orig_layout) ==
    /\ ~panicked
    /\ call = NoCall
    /\ LET r == blit_image(cmds[cb], src_image, src_orig_layout, dst_image, dst_orig_layout)
       IN  /\ cmds' = [cmds EXCEPT ![cb] = r.cmds]
           /\ panicked' = r.panic
    /\ call' = [fn |-> "blit_image", cb |-> cb,
                src_image |-> src_image, src_orig_layout |-> src_orig_layout,
                dst_image |-> dst_image, dst_orig_layout |-> dst_orig_layout,
                mark |-> Len(cmds[cb])]
    /\ UNCHANGED <<negotiationVars, markerVars, allocatorVars, submitVars, includeVars, resourceVars, lockVars>>

CommandInit ==
    /\ cmds = [cb \in CommandBuffers |-> << >>]
    /\ call = NoCall
    /\ panicked = FALSE

NextCommand ==
    \/ \E cb \in CommandBuffers : Draw(cb)
    \/ \E layout \in ImageLayout : LayoutLookup(layout)
    \/ \E cb \in CommandBuffers, image \in Images, old_layout, new_layout \in ImageLayout :
           ImageTransition(cb, image, old_layout, new_layout)
    \/ \E cb \in CommandBuffers, src_image, dst_image \in Images,
          src_orig_layout, dst_orig_layout \in ImageLayout :
           BlitImage(cb, src_image, src_orig_layout, dst_image, dst_orig_layout)

\* --- the table of section 4.5 of the specification ---

Row(stage, access) == [stage |-> stage, access |-> access]

Section45Table ==
    [layout \in
        { "UNDEFINED", "PREINITIALIZED", "TRANSFER_SRC_OPTIMAL", "TRANSFER_DST_OPTIMAL",
          "COLOR_ATTACHMENT_OPTIMAL", "DEPTH_ATTACHMENT_OPTIMAL",
          "FRAGMENT_SHADING_RATE_ATTACHMENT_OPTIMAL_KHR", "SHADER_READ_ONLY_OPTIMAL",
          "PRESENT_SRC_KHR", "GENERAL" } |->
        CASE layout = "UNDEFINED" -> Row({"TOP_OF_PIPE"}, {})
          [] layout = "PREINITIALIZED" -> Row({"HOST"}, {"HOST_WRITE"})
          [] layout = "TRANSFER_SRC_OPTIMAL" -> Row({"TRANSFER"}, {"TRANSFER_READ"})
          [] layout = "TRANSFER_DST_OPTIMAL" -> Row({"TRANSFER"}, {"TRANSFER_WRITE"})
          [] layout = "COLOR_ATTACHMENT_OPTIMAL" ->
                 Row({"COLOR_ATTACHMENT_OUTPUT"},
                     {"COLOR_ATTACHMENT_READ", "COLOR_ATTACHMENT_WRITE"})
          [] layout = "DEPTH_ATTACHMENT_OPTIMAL" ->
                 Row({"EARLY_FRAGMENT_TESTS", "LATE_FRAGMENT_TESTS"},
                     {"DEPTH_STENCIL_ATTACHMENT_READ", "DEPTH_STENCIL_ATTACHMENT_WRITE"})
          [] layout = "FRAGMENT_SHADING_RATE_ATTACHMENT_OPTIMAL_KHR" ->
                 Row({"FRAGMENT_SHADING_RATE_ATTACHMENT_KHR"},
                     {"FRAGMENT_SHADING_RATE_ATTACHMENT_READ_KHR"})
          [] layout = "SHADER_READ_ONLY_OPTIMAL" ->
                 Row({"VERTEX_SHADER", "FRAGMENT_SHADER"},
                     {"SHADER_READ", "INPUT_ATTACHMENT_READ"})
          [] layout = "PRESENT_SRC_KHR" -> Row({"BOTTOM_OF_PIPE"}, {})
          [] layout = "GENERAL" -> Row({"ALL_COMMANDS"}, {"SHADER_READ", "SHADER_WRITE"})]

EnumeratedLayouts == DOMAIN Section45Table

\* What the last call appended to its command buffer.
Appended == SubSeq(cmds[call.cb], call.mark + 1, Len(cmds[call.cb]))

\* The layout an image is left in by the barriers of a command list.
RECURSIVE FinalLayout(_, _, _)
FinalLayout(commands, image, start) ==
    IF commands = << >> THEN start
    ELSE LET c == commands[Len(commands)]
         IN  IF c.op = "pipeline_barrier2" /\ c.image = image
             THEN c.new_layout
             ELSE FinalLayout(SubSeq(commands, 1, Len(commands) - 1), image, start)

Transition(c) == [op |-> c.op, image |-> c.image,
                  old_layout |-> c.old_layout, new_layout |-> c.new_layout]
ExpectTransition(image, old_layout, new_layout) ==
    [op |-> "pipeline_barrier2", image |-> image,
     old_layout |-> old_layout, new_layout |-> new_layout]

\* C4: for recognized original layouts blit_image records, in order, src
\* orig->TRANSFER_SRC_OPTIMAL, dst orig->TRANSFER_DST_OPTIMAL, one blit, src
\* TRANSFER_SRC_OPTIMAL->orig, dst TRANSFER_DST_OPTIMAL->(GENERAL if dst orig is
\* UNDEFINED, else dst orig).  With two different images the source ends in its
\* original layout and the destination in its original layout, or in GENERAL
\* when that was UNDEFINED.
C4_BlitSequence ==
    (/\ call.fn = "blit_image"
     /\ call.src_orig_layout \in EnumeratedLayouts
     /\ call.dst_orig_layout \in EnumeratedLayouts) =>
        LET a == Appended
            dst_final == IF call.dst_orig_layout = "UNDEFINED"
                         THEN "GENERAL" ELSE call.dst_orig_layout
        IN  /\ ~panicked
            /\ Len(a) = 5
            /\ a[1].op = "pipeline_barrier2" /\ a[2].op = "pipeline_barrier2"
            /\ a[4].op = "pipeline_barrier2" /\ a[5].op = "pipeline_barrier2"
            /\ Transition(a[1]) = ExpectTransition(call.src_image, call.src_orig_layout,
                                                   "TRANSFER_SRC_OPTIMAL")
            /\ Transition(a[2]) = ExpectTransition(call.dst_image, call.dst_orig_layout,
                                                   "TRANSFER_DST_OPTIMAL")
            /\ a[3].op = "blit_image2"
            /\ a[3].src_image = call.src_image /\ a[3].dst_image = call.dst_image
            /\ a[3].src_image_layout = "TRANSFER_SRC_OPTIMAL"
            /\ a[3].dst_image_layout = "TRANSFER_DST_OPTIMAL"
            /\ Transition(a[4]) = ExpectTransition(call.src_image, "TRANSFER_SRC_OPTIMAL",
                                                   call.src_orig_layout)
            /\ Transition(a[5]) = ExpectTransition(call.dst_image, "TRANSFER_DST_OPTIMAL",
                                                   dst_final)
            /\ call.src_image /= call.dst_image =>
                   /\ FinalLayout(a, call.src_image, call.src_orig_layout)
                          = call.src_orig_layout
                   /\ FinalLayout(a, call.dst_image, call.dst_orig_layout) = dst_final
                   /\ FinalLayout(a, call.dst_image, call.dst_orig_layout) /= "UNDEFINED"

\* The scenario of the specification: PRESENT_SRC_KHR source, UNDEFINED
\* destination, recorded behind an earlier command.
C4_Witness ==
    /\ call.fn = "blit_image"
    /\ call.src_orig_layout = "PRESENT_SRC_KHR"
    /\ call.dst_orig_layout = "UNDEFINED"
    /\ call.src_image /= call.dst_image
    /\ call.mark = 1
    /\ FinalLayout(Appended, call.dst_image, "UNDEFINED") = "GENERAL"

\* C5: for each of the ten enumerated layouts get_pipeline_stage_flags and
\* get_access_flags return the stage and access of the section 4.5 table; for
\* any other layout both panic and return nothing.
C5_StageAccessTable ==
    call.fn = "lookup" =>
        /\ Cardinality(EnumeratedLayouts) = 10
        /\ IF call.layout \in EnumeratedLayouts
           THEN /\ ~call.stage.panic
                /\ ~call.access.panic
                /\ call.stage.flags = Section45Table[call.layout].stage
                /\ call.access.flags = Section45Table[call.layout].access
                /\ ~panicked
           ELSE /\ call.stage.panic
                /\ call.access.panic
                /\ panicked

C5_Witness ==
    /\ call.fn = "lookup"
    /\ call.layout = "SHADER_READ_ONLY_OPTIMAL"
    /\ call.access.flags = {"SHADER_READ", "INPUT_ATTACHMENT_READ"}
    /\ call.stage.flags = {"VERTEX_SHADER", "FRAGMENT_SHADER"}

\* C6: image_transition with an old or new layout outside the enumerated set
\* panics before anything is recorded; otherwise it records exactly one image
\* barrier, with src stage/access of the table row of old_layout and dst
\* stage/access of the row of new_layout.
C6_TransitionBarrier ==
    call.fn = "image_transition" =>
        IF call.old_layout \notin EnumeratedLayouts \/ call.new_layout \notin EnumeratedLayouts
        THEN /\ panicked
             /\ Appended = << >>
             /\ \A cb \in CommandBuffers : \A i \in 1..Len(cmds[cb]) : cmds[cb][i].op = "draw"
        ELSE /\ ~panicked
             /\ Len(Appended) = 1
             /\ \A cb \in CommandBuffers :
                    Cardinality({ i \in 1..Len(cmds[cb]) : cmds[cb][i].op /= "draw" })
                        = IF cb = call.cb THEN 1 ELSE 0
             /\ Appended[1].op = "pipeline_barrier2"
             /\ Appended[1].image = call.image
             /\ Appended[1].old_layout = call.old_layout
             /\ Appended[1].new_layout = call.new_layout
             /\ Appended[1].src_stage_mask = Section45Table[call.old_layout].stage
             /\ Appended[1].src_access_mask = Section45Table[call.old_layout].access
             /\ Appended[1].dst_stage_mask = Section45Table[call.new_layout].stage
             /\ Appended[1].dst_access_mask = Section45Table[call.new_layout].access

C6_Witness ==
    /\ call.fn = "image_transition"
    /\ call.old_layout = "UNDEFINED"
    /\ call.new_layout = "COLOR_ATTACHMENT_OPTIMAL"
    /\ call.mark = 1
    /\ Len(cmds[call.cb]) = 2

\* An unrecognized layout: the call aborted with the buffer untouched.
C6_WitnessAbort ==
    /\ call.fn = "image_transition"
    /\ call.old_layout = "GENERAL"
    /\ call.new_layout = "DEPTH_READ_ONLY_STENCIL_ATTACHMENT_OPTIMAL"
    /\ panicked

\* The layouts of ImageLayout that are depth-attachment layouts.
DepthAttachmentLayouts ==
    { "DEPTH_ATTACHMENT_OPTIMAL", "DEPTH_STENCIL_ATTACHMENT_OPTIMAL",
      "DEPTH_READ_ONLY_STENCIL_ATTACHMENT_OPTIMAL" }

\* C17: every barrier image_transition records, called on its own or from
\* blit_image, has aspect mask DEPTH if and only if its old layout or its new
\* layout is a depth-attachment layout, and COLOR otherwise; old and new
\* layout count alike.
C17_AspectMask ==
    \A cb \in CommandBuffers : \A i \in 1..Len(cmds[cb]) :
        LET c == cmds[cb][i]
        IN  c.op = "pipeline_barrier2" =>
                /\ c.aspect_mask \in {"DEPTH", "COLOR"}
                /\ c.aspect_mask = "DEPTH" <=>
                       (\/ c.old_layout \in DepthAttachmentLayouts
                        \/ c.new_layout \in DepthAttachmentLayouts)

\* A transition away from the depth-attachment layout was recorded.
C17_Witness ==
    /\ call.fn = "image_transition"
    /\ call.old_layout = "DEPTH_ATTACHMENT_OPTIMAL"
    /\ call.new_layout = "SHADER_READ_ONLY_OPTIMAL"
    /\ ~panicked
    /\ Len(Appended) = 1
    /\ Appended[1].aspect_mask = "DEPTH"

(***************************************************************************)
(* 3. Scoped debug markers                                                 *)
(***************************************************************************)

\* Bound: markers created in one run.
MaxMarkers == 3

\* Labels a caller passes; one holds an interior NUL byte.
Labels == { [text |-> "frame", interior_nul |-> FALSE],
            [text |-> "fr_0_ame", interior_nul |-> TRUE] }

\* CString::new(label).unwrap_or_default(), device.rs:274
cstring_or_default(label) == IF label.interior_nul THEN "" ELSE label.text

scoped_marker_drop_Forget(buffers, guard) == buffers

\* device.rs:864-872: Drop for ScopedMarker records the end-label on the
\* guard's own command buffer.  marker is the identity of the guard, kept to
\* tell the labels apart in the formulas.
scoped_marker_drop(buffers, guard) ==
    [buffers EXCEPT ![guard.command_buffer] =
        Append(@, [op |-> "end_debug_utils_label", marker |-> guard.marker])]

\* device.rs:269-285
CreateScopedMarker(cb, label) ==
    /\ next_marker < MaxMarkers
    /\ cmds' = [cmds EXCEPT ![cb] =
                   Append(@, [op |-> "begin_debug_utils_label",
                              label |-> cstring_or_default(label),
                              marker |-> next_marker + 1])]
    /\ guards' = Append(guards, [marker |-> next_marker + 1, command_buffer |-> cb])
    /\ next_marker' = next_marker + 1
    /\ UNCHANGED <<lifo, last_exit, call, panicked, negotiationVars, allocatorVars, submitVars, includeVars, resourceVars, lockVars>>

RemoveAt(s, i) == SubSeq(s, 1, i - 1) \o SubSeq(s, i + 1, Len(s))

\* A guard is dropped by hand (drop(guard), or it is moved out and dies
\* elsewhere): any live guard, not only the innermost.
DropScopedMarker(i) ==
    /\ i \in 1..Len(guards)
    /\ cmds' = scoped_marker_drop(cmds, guards[i])
    /\ guards' = RemoveAt(guards, i)
    /\ lifo' = (lifo /\ i = Len(guards))
    /\ UNCHANGED <<next_marker, last_exit, call, panicked, negotiationVars, allocatorVars, submitVars, includeVars, resourceVars, lockVars>>

\* Locals are dropped in reverse order of declaration: guards k..Len(guards).
RECURSIVE DropDownTo(_, _, _)
DropDownTo(buffers, live, k) ==
    IF Len(live) < k THEN buffers
    ELSE DropDownTo(scoped_marker_drop(buffers, live[Len(live)]),
                    SubSeq(live, 1, Len(live) - 1), k)

\* The scope that declared guards k.. is left, by return or by an error
\* propagated with `?`; both run the destructors of its locals.
ExitScope(k, how) ==
    /\ k \in 1..Len(guards)
    /\ cmds' = DropDownTo(cmds, guards, k)
    /\ guards' = SubSeq(guards, 1, k - 1)
    /\ last_exit' = how
    /\ UNCHANGED <<next_marker, lifo, call, panicked, negotiationVars, allocatorVars, submitVars, includeVars, resourceVars, lockVars>>

MarkerInit ==
    /\ guards = << >>
    /\ next_marker = 0
    /\ lifo = TRUE
    /\ last_exit = "none"

NextMarker ==
    \/ \E cb \in CommandBuffers, label \in Labels : CreateScopedMarker(cb, label)
    \/ \E i \in 1..MaxMarkers : DropScopedMarker(i)
    \/ \E k \in 1..MaxMarkers, how \in {"return", "error"} : ExitScope(k, how)

Begins(commands) == { i \in 1..Len(commands) : commands[i].op = "begin_debug_utils_label" }
Ends(commands) == { i \in 1..Len(commands) : commands[i].op = "end_debug_utils_label" }

\* Every end-label closes the label opened last and still open.
RECURSIVE WellNested(_, _)
WellNested(commands, open) ==
    IF commands = << >> THEN TRUE
    ELSE LET c == Head(commands)
         IN  IF c.op = "begin_debug_utils_label"
             THEN WellNested(Tail(commands), Append(open, c.marker))
             ELSE IF c.op = "end_debug_utils_label"
             THEN /\ open /= << >>
                  /\ open[Len(open)] = c.marker
                  /\ WellNested(Tail(commands), SubSeq(open, 1, Len(open) - 1))
             ELSE WellNested(Tail(commands), open)

\* C8: markers are paired.  Every marker created has exactly one begin-label,
\* on its command buffer; it has no end-label while its guard lives and exactly
\* one, on the same command buffer and after the begin-label, once the guard is
\* dropped, whichever way the scope was left.  So on every command buffer the
\* end-labels never outnumber the begin-labels, and the two are equal once all
\* guards are dropped.  When guards are dropped innermost-first the end-labels
\* come in reverse order of the begin-labels.
C8_MarkersPaired ==
    /\ \A m \in 1..next_marker :
           LET live == \E i \in 1..Len(guards) : guards[i].marker = m
               begun == { <<cb, i>> \in CommandBuffers \X (1..(2 * MaxMarkers)) :
                            /\ i \in Begins(cmds[cb]) /\ cmds[cb][i].marker = m }
               ended == { <<cb, i>> \in CommandBuffers \X (1..(2 * MaxMarkers)) :
                            /\ i \in Ends(cmds[cb]) /\ cmds[cb][i].marker = m }
           IN  /\ Cardinality(begun) = 1
               /\ Cardinality(ended) = IF live THEN 0 ELSE 1
               /\ \A b \in begun : \A e \in ended : b[1] = e[1] /\ b[2] < e[2]
               /\ \A i \in 1..Len(guards) : guards[i].marker = m =>
                      \A b \in begun : b[1] = guards[i].command_buffer
    /\ \A cb \in CommandBuffers :
           /\ Cardinality(Ends(cmds[cb])) <= Cardinality(Begins(cmds[cb]))
           /\ guards = << >> => Cardinality(Ends(cmds[cb])) = Cardinality(Begins(cmds[cb]))
           /\ lifo => WellNested(cmds[cb], << >>)

\* Three nested markers, two of them on the same command buffer, all closed
\* by an error leaving the scope.
C8_Witness ==
    /\ next_marker = 3
    /\ guards = << >>
    /\ last_exit = "error"
    /\ lifo
    /\ \E cb \in CommandBuffers : Cardinality(Ends(cmds[cb])) >= 2

(***************************************************************************)
(* 4. The shared allocator: alloc_memory / dealloc_memory                  *)
(***************************************************************************)

\* Bound: allocations handed out by the allocator in one run.
MaxAllocs == 2

Threads == {"t1", "t2"}

\* enum AllocationResource, device.rs:837-841
AllocationResource == {"Image", "Buffer", "None"}

allocation_scheme_AlwaysManaged(resource) == "GpuAllocatorManaged"

\* device.rs:461-465
allocation_scheme(resource) ==
    CASE resource = "Image" -> "DedicatedImage"
      [] resource = "Buffer" -> "DedicatedBuffer"
      [] resource = "None" -> "GpuAllocatorManaged"

lock_NoExclusion(mutex) == TRUE

\* parking_lot::Mutex::lock (device.rs:460, :476) returns once no thread holds
\* the mutex.
lock(mutex) == mutex = "unlocked"

Idle == [fn |-> "idle"]

\* A thread enters alloc_memory (device.rs:453-459).
AllocCall(t, resource) ==
    /\ at[t] = Idle
    /\ next_alloc < MaxAllocs
    /\ at' = [at EXCEPT ![t] =
                 [fn |-> "alloc_memory", pc |-> "lock", resource |-> resource, locks |-> 0]]
    /\ UNCHANGED <<allocator_mutex, allocator, owned, returned, next_alloc>>
    /\ UNCHANGED <<negotiationVars, commandVars, markerVars, submitVars, includeVars, resourceVars, lockVars>>

\* A thread enters dealloc_memory with an Allocation it owns; the value is
\* moved into the call (device.rs:475).
DeallocCall(t, memory) ==
    /\ at[t] = Idle
    /\ memory \in owned[t]
    /\ owned' = [owned EXCEPT ![t] = @ \ {memory}]
    /\ at' = [at EXCEPT ![t] =
                 [fn |-> "dealloc_memory", pc |-> "lock", memory |-> memory, locks |-> 0]]
    /\ UNCHANGED <<allocator_mutex, allocator, returned, next_alloc>>
    /\ UNCHANGED <<negotiationVars, commandVars, markerVars, submitVars, includeVars, resourceVars, lockVars>>

\* self.allocator.lock(), device.rs:460 and :476.
AcquireAllocator(t) ==
    /\ at[t].fn \in {"alloc_memory", "dealloc_memory"}
    /\ at[t].pc = "lock"
    /\ lock(allocator_mutex)
    /\ allocator_mutex' = t
    /\ at' = [at EXCEPT ![t].pc = "call", ![t].locks = @ + 1]
    /\ UNCHANGED <<allocator, owned, returned, next_alloc>>
    /\ UNCHANGED <<negotiationVars, commandVars, markerVars, submitVars, includeVars, resourceVars, lockVars>>

\* The thread is inside Allocator::allocate / Allocator::free (device.rs:466, :477).
EnterAllocator(t) ==
    /\ at[t].fn \in {"alloc_memory", "dealloc_memory"}
    /\ at[t].pc = "call"
    /\ at' = [at EXCEPT ![t].pc = "inside"]
    /\ UNCHANGED <<allocator_mutex, allocator, owned, returned, next_alloc>>
    /\ UNCHANGED <<negotiationVars, commandVars, markerVars, submitVars, includeVars, resourceVars, lockVars>>

\* allocator.allocate returns and alloc_memory returns its result; the guard
\* goes out of scope (device.rs:466-473).
AllocReturn(t, ok) ==
    /\ at[t].fn = "alloc_memory"
    /\ at[t].pc = "inside"
    /\ IF ok
       THEN /\ allocator' = allocator \cup
                   {[id |-> next_alloc + 1, scheme |-> allocation_scheme(at[t].resource)]}
            /\ owned' = [owned EXCEPT ![t] = @ \cup {next_alloc + 1}]
            /\ next_alloc' = next_alloc + 1
            /\ returned' = [returned EXCEPT ![t] =
                   [fn |-> "alloc_memory", result |-> "Ok", memory |-> next_alloc + 1,
                    resource |-> at[t].resource, locks |-> at[t].locks]]
       ELSE /\ UNCHANGED <<allocator, owned, next_alloc>>
            /\ returned' = [returned EXCEPT ![t] =
                   [fn |-> "alloc_memory", result |-> "AllocationError", memory |-> 0,
                    resource |-> at[t].resource, locks |-> at[t].locks]]
    /\ allocator_mutex' = "unlocked"
    /\ at' = [at EXCEPT ![t] = Idle]
    /\ UNCHANGED <<negotiationVars, commandVars, markerVars, submitVars, includeVars, resourceVars, lockVars>>

dealloc_memory_returns_Propagate(free_ok) == IF free_ok THEN "()" ELSE "AllocationError"

\* device.rs:477: `let _ = allocator.free(memory)` discards the Result of
\* free, and the function's value is ().
dealloc_memory_returns(free_ok) == "()"

\* allocator.free returns, its result is discarded with `let _`, and
\* dealloc_memory returns (); the guard goes out of scope (device.rs:477-478).
\* When free fails the allocator still counts the block.
DeallocReturn(t, ok) ==
    /\ at[t].fn = "dealloc_memory"
    /\ at[t].pc = "inside"
    /\ allocator' = IF ok THEN { a \in allocator : a.id /= at[t].memory } ELSE allocator
    /\ returned' = [returned EXCEPT ![t] =
           [fn |-> "dealloc_memory", result |-> dealloc_memory_returns(ok),
            memory |-> at[t].memory,
            free_ok |-> ok, locks |-> at[t].locks]]
    /\ allocator_mutex' = "unlocked"
    /\ at' = [at EXCEPT ![t] = Idle]
    /\ UNCHANGED <<owned, next_alloc>>
    /\ UNCHANGED <<negotiationVars, commandVars, markerVars, submitVars, includeVars, resourceVars, lockVars>>

AllocatorInit ==
    /\ at = [t \in Threads |-> Idle]
    /\ allocator_mutex = "unlocked"
    /\ allocator = {}
    /\ owned = [t \in Threads |-> {}]
    /\ returned = [t \in Threads |-> [fn |-> "none"]]
    /\ next_alloc = 0

NextAllocator ==
    \/ \E t \in Threads, resource \in AllocationResource : AllocCall(t, resource)
    \/ \E t \in Threads, memory \in 1..MaxAllocs : DeallocCall(t, memory)
    \/ \E t \in Threads : AcquireAllocator(t)
    \/ \E t \in Threads : EnterAllocator(t)
    \/ \E t \in Threads, ok \in BOOLEAN : AllocReturn(t, ok)
    \/ \E t \in Threads, ok \in BOOLEAN : DeallocReturn(t, ok)

InAllocator == { t \in Threads : at[t] /= Idle /\ at[t].pc = "inside" }
HoldsGuard(t) == at[t] /= Idle /\ at[t].pc \in {"call", "inside"}

\* C7: access to the allocator is serialized.  At most one thread is inside
\* the allocator at any time, and it is the one holding the mutex; a call
\* holds the mutex from its single lock() to its return and at no other time;
\* every call that returned, alloc_memory with Ok or with AllocationError and
\* dealloc_memory, locked exactly once and left the mutex released.
C7_AllocatorSerialized ==
    /\ Cardinality(InAllocator) <= 1
    /\ Cardinality({ t \in Threads : HoldsGuard(t) }) <= 1
    /\ \A t \in Threads :
           /\ HoldsGuard(t) <=> allocator_mutex = t
           /\ HoldsGuard(t) => at[t].locks = 1
           /\ (at[t] /= Idle /\ at[t].pc = "lock") => at[t].locks = 0
           /\ returned[t].fn /= "none" => returned[t].locks = 1
    /\ (\A t \in Threads : at[t] = Idle) => allocator_mutex = "unlocked"

\* One thread is inside the allocator while the other waits for the mutex,
\* after an allocation that failed.
C7_Witness ==
    /\ at["t1"] /= Idle /\ at["t1"].pc = "inside"
    /\ at["t2"] /= Idle /\ at["t2"].pc = "lock"
    /\ returned["t2"].fn = "alloc_memory"
    /\ returned["t2"].result = "AllocationError"
    /\ returned["t1"].fn = "dealloc_memory"

\* C13: dealloc_memory never reports failure.  Whether Allocator::free
\* succeeded or failed, a call that returned has returned (), the Allocation
\* it was given is owned by no caller any more, and the call has let go of the
\* allocator mutex.
C13_DeallocNeverFails ==
    \A t \in Threads :
        returned[t].fn = "dealloc_memory" =>
            /\ returned[t].result = "()"
            /\ returned[t].locks = 1
            /\ \A u \in Threads : returned[t].memory \notin owned[u]
            /\ at[t] = Idle => allocator_mutex /= t

\* A dealloc_memory whose free failed has returned; the allocator still
\* counts the block and nobody owns it.
C13_Witness ==
    \E t \in Threads :
        /\ returned[t].fn = "dealloc_memory"
        /\ ~returned[t].free_ok
        /\ at[t] = Idle
        /\ \E a \in allocator : a.id = returned[t].memory

(***************************************************************************)
(* 5. one_time_submit                                                      *)
(***************************************************************************)

\* Bound: calls of one_time_submit in one run.
MaxSubmits == 2

NoHandle == [some |-> FALSE]

next_step_IgnoreClosure(step, ok) ==
    IF ~ok /\ step /= "callbk" THEN "return_err"
    ELSE CASE step = "create_fence" -> "allocate_command_buffers"
           [] step = "allocate_command_buffers" -> "begin_command_buffer"
           [] step = "begin_command_buffer" -> "callbk"
           [] step = "callbk" -> "end_command_buffer"
           [] step = "end_command_buffer" -> "queue_submit"
           [] step = "queue_submit" -> "wait_for_fences"
           [] step = "wait_for_fences" -> "cleanup"

\* device.rs:419-447: every fallible step ends in `?`, which returns the
\* error at once; otherwise the next statement runs.
next_step(step, ok) ==
    IF ~ok THEN "return_err"
    ELSE CASE step = "create_fence" -> "allocate_command_buffers"
           [] step = "allocate_command_buffers" -> "begin_command_buffer"
           [] step = "begin_command_buffer" -> "callbk"
           [] step = "callbk" -> "end_command_buffer"
           [] step = "end_command_buffer" -> "queue_submit"
           [] step = "queue_submit" -> "wait_for_fences"
           [] step = "wait_for_fences" -> "cleanup"

NotSubmitting == [pc |-> "idle"]

\* The call record after `step` ran with outcome ok, and what the call
\* returned if it returned.
Advance(step, ok, fence, cb) ==
    LET to == next_step(step, ok)
        trace == Append(ots.trace, step)
        closure == IF step = "callbk" THEN (IF ok THEN "Ok" ELSE "Err") ELSE ots.closure
    IN  IF to = "return_err"
        THEN /\ ots' = NotSubmitting
             /\ ots_returns' = Append(ots_returns,
                    [status |-> "Err", step |-> step, fence |-> fence, cb |-> cb,
                     closure |-> closure, trace |-> trace])
        ELSE /\ ots' = [pc |-> to, fence |-> fence, cb |-> cb,
                        closure |-> closure, trace |-> trace]
             /\ UNCHANGED ots_returns

\* device.rs:415-418: the call is entered.
OneTimeSubmit ==
    /\ ots = NotSubmitting
    /\ Len(ots_returns) < MaxSubmits
    /\ ots' = [pc |-> "create_fence", fence |-> NoHandle, cb |-> NoHandle,
               closure |-> "not run", trace |-> << >>]
    /\ UNCHANGED <<fences, pool, queue, signalled, ots_returns, next_handle>>
    /\ UNCHANGED <<negotiationVars, commandVars, markerVars, allocatorVars, includeVars, resourceVars, lockVars>>

\* device.rs:419
OtsCreateFence(ok) ==
    /\ ots.pc = "create_fence"
    /\ IF ok
       THEN /\ fences' = fences \cup {next_handle + 1}
            /\ next_handle' = next_handle + 1
            /\ Advance("create_fence", TRUE, Some(next_handle + 1), ots.cb)
       ELSE /\ UNCHANGED <<fences, next_handle>>
            /\ Advance("create_fence", FALSE, ots.fence, ots.cb)
    /\ UNCHANGED <<pool, queue, signalled>>
    /\ UNCHANGED <<negotiationVars, commandVars, markerVars, allocatorVars, includeVars, resourceVars, lockVars>>

\* device.rs:420-427
OtsAllocateCommandBuffers(ok) ==
    /\ ots.pc = "allocate_command_buffers"
    /\ IF ok
       THEN /\ pool' = pool \cup {next_handle + 1}
            /\ next_handle' = next_handle + 1
            /\ Advance("allocate_command_buffers", TRUE, ots.fence, Some(next_handle + 1))
       ELSE /\ UNCHANGED <<pool, next_handle>>
            /\ Advance("allocate_command_buffers", FALSE, ots.fence, ots.cb)
    /\ UNCHANGED <<fences, queue, signalled>>
    /\ UNCHANGED <<negotiationVars, commandVars, markerVars, allocatorVars, includeVars, resourceVars, lockVars>>

\* device.rs:430-434
OtsBeginCommandBuffer(ok) ==
    /\ ots.pc = "begin_command_buffer"
    /\ Advance("begin_command_buffer", ok, ots.fence, ots.cb)
    /\ UNCHANGED <<fences, pool, queue, signalled, next_handle>>
    /\ UNCHANGED <<negotiationVars, commandVars, markerVars, allocatorVars, includeVars, resourceVars, lockVars>>

\* device.rs:436: the caller's closure records and returns Ok or Err.
OtsCallbk(ok) ==
    /\ ots.pc = "callbk"
    /\ Advance("callbk", ok, ots.fence, ots.cb)
    /\ UNCHANGED <<fences, pool, queue, signalled, next_handle>>
    /\ UNCHANGED <<negotiationVars, commandVars, markerVars, allocatorVars, includeVars, resourceVars, lockVars>>

\* device.rs:438
OtsEndCommandBuffer(ok) ==
    /\ ots.pc = "end_command_buffer"
    /\ Advance("end_command_buffer", ok, ots.fence, ots.cb)
    /\ UNCHANGED <<fences, pool, queue, signalled, next_handle>>
    /\ UNCHANGED <<negotiationVars, commandVars, markerVars, allocatorVars, includeVars, resourceVars, lockVars>>

\* device.rs:440-443: the command buffer goes to the main queue with the fence.
OtsQueueSubmit(ok) ==
    /\ ots.pc = "queue_submit"
    /\ queue' = IF ok
                THEN Append(queue, [cb |-> ots.cb.value, fence |-> ots.fence.value,
                                    closure |-> ots.closure])
                ELSE queue
    /\ Advance("queue_submit", ok, ots.fence, ots.cb)
    /\ UNCHANGED <<fences, pool, signalled, next_handle>>
    /\ UNCHANGED <<negotiationVars, commandVars, markerVars, allocatorVars, includeVars, resourceVars, lockVars>>

\* The GPU finishes a submitted command buffer and signals its fence.
GpuSignal ==
    /\ \E i \in 1..Len(queue) :
           /\ queue[i].fence \notin signalled
           /\ \A j \in 1..(i - 1) : queue[j].fence \in signalled
           /\ signalled' = signalled \cup {queue[i].fence}
    /\ UNCHANGED <<ots, fences, pool, queue, ots_returns, next_handle>>
    /\ UNCHANGED <<negotiationVars, commandVars, markerVars, allocatorVars, includeVars, resourceVars, lockVars>>

\* device.rs:444: wait_for_fences(.., u64::MAX) returns Ok once the fence is
\* signalled, or an error (device lost).
OtsWaitForFences(ok) ==
    /\ ots.pc = "wait_for_fences"
    /\ ok => ots.fence.value \in signalled
    /\ Advance("wait_for_fences", ok, ots.fence, ots.cb)
    /\ UNCHANGED <<fences, pool, queue, signalled, next_handle>>
    /\ UNCHANGED <<negotiationVars, commandVars, markerVars, allocatorVars, includeVars, resourceVars, lockVars>>

\* device.rs:446-450: destroy_fence, free_command_buffers, Ok(()).
OtsCleanup ==
    /\ ots.pc = "cleanup"
    /\ fences' = fences \ {ots.fence.value}
    /\ pool' = pool \ {ots.cb.value}
    /\ ots' = NotSubmitting
    /\ ots_returns' = Append(ots_returns,
           [status |-> "Ok", step |-> "return", fence |-> ots.fence, cb |-> ots.cb,
            closure |-> ots.closure,
            trace |-> ots.trace \o << "destroy_fence", "free_command_buffers" >>])
    /\ UNCHANGED <<queue, signalled, next_handle>>
    /\ UNCHANGED <<negotiationVars, commandVars, markerVars, allocatorVars, includeVars, resourceVars, lockVars>>

SubmitInit ==
    /\ ots = NotSubmitting
    /\ fences = {}
    /\ pool = {}
    /\ queue = << >>
    /\ signalled = {}
    /\ ots_returns = << >>
    /\ next_handle = 0

NextSubmit ==
    \/ OneTimeSubmit
    \/ \E ok \in BOOLEAN : OtsCreateFence(ok)
    \/ \E ok \in BOOLEAN : OtsAllocateCommandBuffers(ok)
    \/ \E ok \in BOOLEAN : OtsBeginCommandBuffer(ok)
    \/ \E ok \in BOOLEAN : OtsCallbk(ok)
    \/ \E ok \in BOOLEAN : OtsEndCommandBuffer(ok)
    \/ \E ok \in BOOLEAN : OtsQueueSubmit(ok)
    \/ GpuSignal
    \/ \E ok \in BOOLEAN : OtsWaitForFences(ok)
    \/ OtsCleanup

\* The order the claim gives, followed by the two releases.
StepOrder ==
    << "create_fence", "allocate_command_buffers", "begin_command_buffer", "callbk",
       "end_command_buffer", "queue_submit", "wait_for_fences",
       "destroy_fence", "free_command_buffers" >>

IsPrefix(s, t) == Len(s) <= Len(t) /\ \A i \in 1..Len(s) : s[i] = t[i]

Submitted(cb) == cb.some /\ \E i \in 1..Len(queue) : queue[i].cb = cb.value

\* C9: one_time_submit runs create fence, allocate command buffer, begin,
\* closure, end, submit, wait in this order.  It returns Ok only when the
\* closure returned Ok, the command buffer was submitted with the fence and the
\* fence signalled; when the closure or an earlier step fails the command
\* buffer is never submitted and the call returns the error.
C9_SubmitRoundTrip ==
    /\ ots /= NotSubmitting => IsPrefix(ots.trace, StepOrder)
    /\ \A n \in 1..Len(ots_returns) :
           LET r == ots_returns[n]
           IN  /\ IsPrefix(r.trace, StepOrder)
               /\ r.status = "Ok" =>
                      /\ r.trace = StepOrder
                      /\ r.closure = "Ok"
                      /\ \E i \in 1..Len(queue) :
                             /\ queue[i].cb = r.cb.value
                             /\ queue[i].fence = r.fence.value
                      /\ r.fence.value \in signalled
               /\ r.closure /= "Ok" =>
                      /\ r.status = "Err"
                      /\ r.step \in {"create_fence", "allocate_command_buffers",
                                     "begin_command_buffer", "callbk"}
                      /\ r.trace[Len(r.trace)] = r.step
                      /\ ~Submitted(r.cb)
               /\ (r.status = "Err" /\ r.step \in {"create_fence", "allocate_command_buffers",
                                                   "begin_command_buffer", "callbk"})
                      => ~Submitted(r.cb)
    /\ \A i \in 1..Len(queue) : queue[i].closure = "Ok"

\* A call whose closure failed, then a call that went all the way round.
C9_Witness ==
    /\ Len(ots_returns) = 2
    /\ ots_returns[1].status = "Err"
    /\ ots_returns[1].step = "callbk"
    /\ ots_returns[1].cb.some
    /\ ots_returns[2].status = "Ok"

\* C18: one_time_submit releases what it allocated on every return path.
\* Whenever a call has returned, with Ok or with the error of any step, the
\* fence it created and the command buffer it allocated are freed; between
\* calls the device has no live fence and no live command buffer in its pool.
C18_ReleasesOnEveryPath ==
    /\ \A n \in 1..Len(ots_returns) :
           LET r == ots_returns[n]
           IN  /\ r.fence.some => r.fence.value \notin fences
               /\ r.cb.some => r.cb.value \notin pool
    /\ ots = NotSubmitting => (fences = {} /\ pool = {})

(***************************************************************************)
(* 6. Shader include resolution (ShaderCompiler::new, the include callback)*)
(***************************************************************************)

\* Bounds: compile() calls in one run, include callbacks in one run.
MaxCompiles == 2
MaxIncludes == 3

\* A path is the sequence of its components; an absolute path starts at "/".
\* crate::SHADER_FOLDER, used at shader_compiler.rs:35.
SHADER_FOLDER == << "shaders" >>

\* The process's working directory and the files below it.
CurrentDir == << "/", "app" >>
Files ==
    { << "/", "app", "shaders", "f.frag" >>,
      << "/", "app", "shaders", "fx", "g.frag" >>,
      << "/", "app", "shaders", "common.glsl" >>,
      << "/", "app", "shaders", "util.glsl" >>,
      << "/", "app", "shaders", "lib", "a.glsl" >>,
      << "/", "app", "shaders", "lib", "b.glsl" >> }
Dirs == { SubSeq(f, 1, n) : f \in Files, n \in 1..4 } \ Files

\* Root shaders handed to compile(), as the caller names them.
RootShaders == { << "shaders", "f.frag" >>, << "shaders", "fx", "g.frag" >> }

\* Names written in #include directives.
IncludeNames ==
    { << "common.glsl" >>, << "lib", "a.glsl" >>, << "b.glsl" >>,
      << "..", "util.glsl" >>, << "missing.glsl" >> }

IncludeType == {"Relative", "Standard"}

\* Path::parent, Path::file_name, Path::join.
Parent(path) == SubSeq(path, 1, Len(path) - 1)
FileName(path) == << path[Len(path)] >>
Join(base, path) == IF path /= << >> /\ path[1] = "/" THEN path ELSE base \o path

\* The file system's walk along a path: ".." goes up, every directory on the
\* way has to exist.  << >> when the walk fails.
RECURSIVE Walk(_, _)
Walk(at_dir, rest) ==
    IF rest = << >> THEN at_dir
    ELSE LET to == IF Head(rest) = ".."
                   THEN (IF Len(at_dir) > 1 THEN Parent(at_dir) ELSE at_dir)
                   ELSE Append(at_dir, Head(rest))
         IN  IF Tail(rest) /= << >> /\ to \notin Dirs THEN << >>
             ELSE Walk(to, Tail(rest))

\* Path::canonicalize: the absolute path without "..".
canonicalize(path) ==
    IF path /= << >> /\ path[1] = "/" THEN Walk(<< "/" >>, Tail(path))
    ELSE Walk(CurrentDir, path)

\* std::fs::read_to_string succeeds when the path leads to a file.
read_to_string(path) == canonicalize(path) \in Files

\* struct ShaderSource of the crate: a root shader's path and its kind.
ShaderSource(root) ==
    [path |-> root, kind |-> IF root[Len(root)] = "f.frag" THEN "Fragment" ELSE "Compute"]

include_mapping_insert_FirstOnly(mapping, name, source_file) ==
    LET sources == mapping[source_file]
        first == CHOOSE s \in sources : \A o \in sources : Len(s.path) <= Len(o.path)
    IN  IF sources = {} THEN mapping
        ELSE [k \in DOMAIN mapping \cup {name} |->
                 IF k = name
                 THEN (IF name \in DOMAIN mapping THEN mapping[name] ELSE {}) \cup {first}
                 ELSE mapping[k]]

\* shader_compiler.rs:46-51: every source mapped to source_file is inserted
\* into the entry of name, which is created on the first insert.
include_mapping_insert(mapping, name, source_file) ==
    LET sources == mapping[source_file]
    IN  IF sources = {} THEN mapping
        ELSE [k \in DOMAIN mapping \cup {name} |->
                 IF k = name
                 THEN (IF name \in DOMAIN mapping THEN mapping[name] ELSE {}) \cup sources
                 ELSE mapping[k]]

\* shader_compiler.rs:28-36: the path the callback reads.  anchor is the
\* element mapping[source_file].iter().next() yields.
include_path(name, include_type, anchor) ==
    IF include_type = "Relative"
    THEN Join(Parent(anchor.path), name)
    ELSE Join(SHADER_FOLDER, name)

NoAnchor == [path |-> << >>, kind |-> "none"]

\* What iter().next() can yield at shader_compiler.rs:32: any element, the
\* order of a hash set is not fixed.
Anchors(include_type, source_file) ==
    IF include_type = "Relative" /\ source_file \in DOMAIN include_mapping
       /\ include_mapping[source_file] /= {}
    THEN include_mapping[source_file]
    ELSE {NoAnchor}

NoInclude == [status |-> "none"]
NoCompile == [some |-> FALSE]

\* The watcher starts tracking a root shader before it is compiled: the
\* shader is entered in include_mapping under the name compile() passes to
\* the compiler as the source file (shader_compiler.rs:75).
TrackShader(root) ==
    /\ ~include_panicked
    /\ LET key == FileName(root)
       IN  include_mapping' =
               [k \in DOMAIN include_mapping \cup {key} |->
                   IF k = key
                   THEN (IF key \in DOMAIN include_mapping THEN include_mapping[key] ELSE {})
                            \cup {ShaderSource(root)}
                   ELSE include_mapping[k]]
    /\ UNCHANGED <<watched, compiling, include, include_panicked, n_compiles, n_includes>>
    /\ UNCHANGED <<negotiationVars, commandVars, markerVars, allocatorVars, submitVars, resourceVars, lockVars>>

\* shader_compiler.rs:70-79: compile() reads the root and hands it to the
\* compiler under its file name.
Compile(root) ==
    /\ ~include_panicked
    /\ ~compiling.some
    /\ n_compiles < MaxCompiles
    /\ read_to_string(root)
    /\ LET key == FileName(root)
       IN  compiling' =
               [some |-> TRUE,
                root |-> root,
                sources |-> {key},
                read_from |-> [k \in {key} |-> root],
                edges |-> {},
                roots_at_start |-> IF key \in DOMAIN include_mapping
                                   THEN include_mapping[key] ELSE {}]
    /\ n_compiles' = n_compiles + 1
    /\ include' = NoInclude
    /\ UNCHANGED <<include_mapping, watched, include_panicked, n_includes>>
    /\ UNCHANGED <<negotiationVars, commandVars, markerVars, allocatorVars, submitVars, resourceVars, lockVars>>

\* compile_into_spirv returns (shader_compiler.rs:72-79).
CompileReturn ==
    /\ ~include_panicked
    /\ compiling.some
    /\ compiling' = NoCompile
    /\ UNCHANGED <<include_mapping, watched, include, include_panicked, n_compiles, n_includes>>
    /\ UNCHANGED <<negotiationVars, commandVars, markerVars, allocatorVars, submitVars, resourceVars, lockVars>>

\* shader_compiler.rs:27-62: the compiler meets `#include name` in source_file,
\* a source of the running compilation, and calls the callback.
IncludeCallback(name, include_type, source_file, anchor) ==
    /\ ~include_panicked
    /\ compiling.some
    /\ n_includes < MaxIncludes
    /\ source_file \in compiling.sources
    /\ anchor \in Anchors(include_type, source_file)
    /\ n_includes' = n_includes + 1
    /\ UNCHANGED n_compiles
    /\ UNCHANGED <<negotiationVars, commandVars, markerVars, allocatorVars, submitVars, resourceVars, lockVars>>
    /\ LET this == [name |-> name, include_type |-> include_type,
                    source_file |-> source_file,
                    source_path |-> compiling.read_from[source_file],
                    seq |-> n_includes + 1]
       IN
       IF include_type = "Relative" /\ anchor = NoAnchor
       THEN \* unwrap() of None at :31 or :32
            /\ include_panicked' = TRUE
            /\ include' = [status |-> "panic", at_line |-> 31, call |-> this]
            /\ UNCHANGED <<include_mapping, watched, compiling>>
       ELSE LET path == include_path(name, include_type, anchor)
            IN  IF ~read_to_string(path)
                THEN \* :58-60
                     /\ include' = [status |-> "Err", call |-> this, path |-> path,
                                    message |-> << name, source_file, path >>]
                     /\ UNCHANGED <<include_mapping, watched, compiling, include_panicked>>
                ELSE \* :40-44, the result of watch() is dropped
                     /\ watched' = watched \cup {canonicalize(path)}
                     /\ IF source_file \notin DOMAIN include_mapping
                        THEN \* mapping[..] at :48 panics on a missing key
                             /\ include_panicked' = TRUE
                             /\ include' = [status |-> "panic", at_line |-> 48, call |-> this]
                             /\ UNCHANGED <<include_mapping, compiling>>
                        ELSE /\ include_mapping' =
                                    include_mapping_insert(include_mapping, name, source_file)
                             /\ include' = [status |-> "Ok", call |-> this, path |-> path,
                                            include_path |-> canonicalize(path),
                                            resolved_name |-> name,
                                            sources |-> include_mapping[source_file]]
                             /\ compiling' =
                                    [compiling EXCEPT
                                        !.sources = @ \cup {name},
                                        !.read_from = [k \in DOMAIN @ \cup {name} |->
                                                          IF k = name THEN path ELSE @[k]],
                                        !.edges = @ \cup {<< source_file, name >>}]
                             /\ UNCHANGED include_panicked

IncludeInit ==
    /\ include_mapping = << >>
    /\ watched = {}
    /\ compiling = NoCompile
    /\ include = NoInclude
    /\ include_panicked = FALSE
    /\ n_compiles = 0
    /\ n_includes = 0

NextInclude ==
    \/ \E root \in RootShaders : TrackShader(root)
    \/ \E root \in RootShaders : Compile(root)
    \/ CompileReturn
    \/ \E name \in IncludeNames, include_type \in IncludeType,
          source_file \in IncludeNames \cup { FileName(r) : r \in RootShaders },
          anchor \in { ShaderSource(r) : r \in RootShaders } \cup {NoAnchor} :
           IncludeCallback(name, include_type, source_file, anchor)

\* C3: dependency propagation is transitive.  After the callback resolved an
\* include of B issued by A, every root that was mapped to A at that moment is
\* mapped to B.  So while a root R that was tracked when its compilation
\* started is compiled, once R included A and A included B the entry of B
\* holds R, and so does the entry of every file the compilation has read.
C3_TransitivePropagation ==
    /\ include.status = "Ok" =>
           /\ include.call.name \in DOMAIN include_mapping
           /\ include.sources \subseteq include_mapping[include.call.name]
    /\ compiling.some =>
           /\ \A e1 \in compiling.edges : \A e2 \in compiling.edges :
                  (/\ e1[1] = FileName(compiling.root)
                   /\ e1[2] = e2[1]
                   /\ ShaderSource(compiling.root) \in compiling.roots_at_start)
                      => /\ e2[2] \in DOMAIN include_mapping
                         /\ ShaderSource(compiling.root) \in include_mapping[e2[2]]
           /\ \A name \in compiling.sources :
                  compiling.roots_at_start /= {} =>
                      /\ name \in DOMAIN include_mapping
                      /\ compiling.roots_at_start \subseteq include_mapping[name]

\* f.frag, tracked, includes lib/a.glsl, which includes common.glsl.
C3_Witness ==
    /\ compiling.some
    /\ compiling.root = << "shaders", "f.frag" >>
    /\ ShaderSource(compiling.root) \in compiling.roots_at_start
    /\ << << "f.frag" >>, << "lib", "a.glsl" >> >> \in compiling.edges
    /\ << << "lib", "a.glsl" >>, << "common.glsl" >> >> \in compiling.edges
    /\ include.status = "Ok"
    /\ include.call.source_file = << "lib", "a.glsl" >>
    /\ ShaderSource(compiling.root) \in include_mapping[<< "common.glsl" >>]

\* C10: a relative include of N issued by source file F is looked for at the
\* parent directory of F's own path joined with N, for a root shader F and for
\* an included file F alike.
C10_RelativeToIssuer ==
    (/\ include.status \in {"Ok", "Err"}
     /\ include.call.include_type = "Relative") =>
        include.path = Join(Parent(include.call.source_path), include.call.name)

\* C11: after a standard include resolved, the path read is SHADER_FOLDER
\* joined with the name, the canonical path of the included file is watched,
\* and include_mapping has an entry under that watched path which holds the
\* roots that depend on the issuing file; every watched path is a key of
\* include_mapping.
C11_WatchedPathIsKey ==
    /\ (/\ include.status = "Ok"
        /\ include.call.include_type = "Standard") =>
           /\ include.path = Join(SHADER_FOLDER, include.call.name)
           /\ include.include_path \in watched
           /\ include.include_path \in DOMAIN include_mapping
           /\ include.sources \subseteq include_mapping[include.include_path]
    /\ ~include_panicked => \A path \in watched : path \in DOMAIN include_mapping

\* The file the include of a finished callback stands for cannot be read: the
\* path the callback tried or, where it got to no path, the include name
\* beside the issuing file.
TargetMissing(inc) ==
    IF inc.status \in {"Ok", "Err"}
    THEN ~read_to_string(inc.path)
    ELSE /\ inc.call.include_type = "Relative"
         /\ inc.at_line = 31
         /\ ~read_to_string(Join(Parent(inc.call.source_path), inc.call.name))

\* C16: a failing include resolution is a reported error.  Whenever the file
\* of an include, relative or standard, from any issuing source file, is
\* missing, the callback returns an Err naming the include name, the issuing
\* source file and the path tried; it does not abort, registers no watch and
\* leaves include_mapping as it was.
C16_IncludeFailureReported ==
    [][(n_includes' = n_includes + 1 /\ TargetMissing(include')) =>
           /\ include'.status = "Err"
           /\ include'.message = << include'.call.name, include'.call.source_file,
                                    include'.path >>
           /\ ~include_panicked'
           /\ watched' = watched
           /\ include_mapping' = include_mapping]_vars

(***************************************************************************)
(* 7. Resources and the lifetime of the device                             *)
(***************************************************************************)

\* Bound: objects (images, buffers, allocations, markers) created in one run.
MaxObjects == 2

NoObject == [kind |-> "none", id |-> 0]

\* The variants of enum AllocationResource with their payload
\* (device.rs:837-841), as the creators build them (:296, :619, :656).
AllocationResource_Image(image) == [kind |-> "Image", handle |-> image]
AllocationResource_Buffer(buffer) == [kind |-> "Buffer", handle |-> buffer]
AllocationResource_None == [kind |-> "None", handle |-> NoObject]

\* device.rs:461-472: the description alloc_memory hands to
\* Allocator::allocate.  A dedicated scheme carries the handle of the resource.
AllocationCreateDesc(resource) ==
    [allocation_scheme |-> allocation_scheme(resource.kind),
     handle |-> resource.handle]

Arc_clone_Borrowed(strong, holder) == strong

\* Arc::clone(self) / self.clone() on Arc<Device> (device.rs:283, :632, :672):
\* the new value is one more strong reference.
Arc_clone(strong, holder) == strong \cup {holder}

\* Drop for Device, device.rs:828-835.
drop_Device == << [op |-> "destroy_command_pool"], [op |-> "destroy_device"] >>

\* After Drop::drop the fields of struct Device are dropped (device.rs:23-36);
\* the allocator is the one with a destructor that talks to the device.
drop_Device_fields == << [op |-> "drop_field", field |-> "allocator"] >>

destroy_image_FreeFirst(image, memory, free_ok) ==
    << [op |-> "free", memory |-> memory, ok |-> free_ok, by |-> "destroy_image"],
       [op |-> "destroy_image", object |-> image] >>

\* device.rs:349-352: the calls destroy_image makes, in order.
destroy_image(image, memory, free_ok) ==
    << [op |-> "destroy_image", object |-> image],
       [op |-> "free", memory |-> memory, ok |-> free_ok, by |-> "destroy_image"] >>

\* The renderer's own Arc<Device>, the one the other references are cloned from.
Owner == [type |-> "owner"]

\* A device method can be called by whoever holds a reference to the device.
DeviceReachable == arc_device /= {}

\* A strong reference goes away with the value that held it.  The last one
\* runs Drop for Device and then drops the fields.  log is api_log with what
\* the action did before.
ArcDrop(holder, log) ==
    LET strong == arc_device \ {holder}
        last == holder \in arc_device /\ strong = {}
    IN  /\ arc_device' = strong
        /\ api_log' = IF last THEN log \o drop_Device \o drop_Device_fields ELSE log
        /\ device_drops' = IF last THEN device_drops + 1 ELSE device_drops

\* device.rs:453-473 called on its own.
AllocMemory(resource, ok) ==
    /\ DeviceReachable
    /\ next_vk < MaxObjects
    /\ next_vk' = next_vk + 1
    /\ LET memory == [kind |-> "allocation", id |-> next_vk + 1]
           desc == AllocationCreateDesc(resource)
       IN  /\ api_log' = Append(api_log,
                  [op |-> "allocate", by |-> "alloc_memory", resource |-> resource.kind,
                   desc |-> desc, memory |-> memory, ok |-> ok])
           /\ vk_allocations' = IF ok THEN vk_allocations \cup {memory} ELSE vk_allocations
    /\ UNCHANGED <<vk_objects, image_owners, live_buffers, scoped_markers, arc_device, device_drops>>
    /\ UNCHANGED <<negotiationVars, commandVars, markerVars, allocatorVars, submitVars,
                   includeVars, lockVars>>

\* device.rs:287-299.  outcome says which call fails first, if any; every
\* failure returns with `?` and what was created so far stays as it is.
CreateImage(outcome) ==
    /\ DeviceReachable
    /\ next_vk < MaxObjects
    /\ next_vk' = IF outcome = "create_err" THEN next_vk ELSE next_vk + 1
    /\ LET image == [kind |-> "image", id |-> next_vk + 1]
           memory == [kind |-> "allocation", id |-> next_vk + 1]
           resource == AllocationResource_Image(image)
           allocate == [op |-> "allocate", by |-> "create_image", resource |-> resource.kind,
                        desc |-> AllocationCreateDesc(resource), memory |-> memory,
                        ok |-> outcome /= "alloc_err"]
       IN  IF outcome = "create_err"
           THEN UNCHANGED <<vk_objects, vk_allocations, image_owners, api_log>>
           ELSE /\ vk_objects' = vk_objects \cup {image}
                /\ api_log' = api_log \o << [op |-> "create_image", object |-> image],
                                            allocate >>
                /\ vk_allocations' = IF outcome = "alloc_err" THEN vk_allocations
                                     ELSE vk_allocations \cup {memory}
                /\ image_owners' = IF outcome = "ok"
                                   THEN image_owners \cup {<< image, memory >>}
                                   ELSE image_owners
    /\ UNCHANGED <<live_buffers, scoped_markers, arc_device, device_drops>>
    /\ UNCHANGED <<negotiationVars, commandVars, markerVars, allocatorVars, submitVars,
                   includeVars, lockVars>>

\* device.rs:599-634 (create_buffer) and :636-675 (create_buffer_typed): the
\* same steps, the value returned is a Buffer or a BufferTyped that holds a
\* clone of the Arc<Device>.
CreateBuffer(fn, outcome) ==
    /\ DeviceReachable
    /\ next_vk < MaxObjects
    /\ next_vk' = IF outcome = "create_err" THEN next_vk ELSE next_vk + 1
    /\ LET buffer == [kind |-> "buffer", id |-> next_vk + 1]
           memory == [kind |-> "allocation", id |-> next_vk + 1]
           resource == AllocationResource_Buffer(buffer)
           allocate == [op |-> "allocate", by |-> fn, resource |-> resource.kind,
                        desc |-> AllocationCreateDesc(resource), memory |-> memory,
                        ok |-> outcome /= "alloc_err"]
           value == [type |-> IF fn = "create_buffer" THEN "Buffer" ELSE "BufferTyped",
                     buffer |-> buffer, memory |-> memory]
       IN  IF outcome = "create_err"
           THEN UNCHANGED <<vk_objects, vk_allocations, live_buffers, arc_device, api_log>>
           ELSE /\ vk_objects' = vk_objects \cup {buffer}
                /\ api_log' = api_log \o << [op |-> "create_buffer", object |-> buffer],
                                            allocate >>
                /\ vk_allocations' = IF outcome = "alloc_err" THEN vk_allocations
                                     ELSE vk_allocations \cup {memory}
                /\ live_buffers' = IF outcome = "ok" THEN live_buffers \cup {value} ELSE live_buffers
                /\ arc_device' = IF outcome = "ok" THEN Arc_clone(arc_device, value)
                                 ELSE arc_device
    /\ UNCHANGED <<image_owners, scoped_markers, device_drops>>
    /\ UNCHANGED <<negotiationVars, commandVars, markerVars, allocatorVars, submitVars,
                   includeVars, lockVars>>

\* device.rs:349-352, called with a pair create_image returned.
DestroyImage(pair, free_ok) ==
    /\ DeviceReachable
    /\ pair \in image_owners
    /\ image_owners' = image_owners \ {pair}
    /\ vk_objects' = vk_objects \ {pair[1]}
    /\ vk_allocations' = IF free_ok THEN vk_allocations \ {pair[2]} ELSE vk_allocations
    /\ api_log' = api_log \o destroy_image(pair[1], pair[2], free_ok)
    /\ UNCHANGED <<live_buffers, scoped_markers, arc_device, device_drops, next_vk>>
    /\ UNCHANGED <<negotiationVars, commandVars, markerVars, allocatorVars, submitVars,
                   includeVars, lockVars>>

\* A Buffer or BufferTyped is dropped: its destructor destroys the buffer and
\* then releases the allocation, and its Arc<Device> field goes with it.
DropBuffer(value, free_ok) ==
    /\ value \in live_buffers
    /\ live_buffers' = live_buffers \ {value}
    /\ vk_objects' = vk_objects \ {value.buffer}
    /\ vk_allocations' = IF free_ok THEN vk_allocations \ {value.memory} ELSE vk_allocations
    /\ ArcDrop(value, api_log \o
           << [op |-> "destroy_buffer", object |-> value.buffer],
              [op |-> "free", memory |-> value.memory, ok |-> free_ok, by |-> "drop_buffer"] >>)
    /\ UNCHANGED <<image_owners, scoped_markers, next_vk>>
    /\ UNCHANGED <<negotiationVars, commandVars, markerVars, allocatorVars, submitVars,
                   includeVars, lockVars>>

\* device.rs:269-285: the ScopedMarker returned holds Arc::clone(self).
HoldScopedMarker ==
    /\ DeviceReachable
    /\ next_vk < MaxObjects
    /\ next_vk' = next_vk + 1
    /\ LET value == [type |-> "ScopedMarker", id |-> next_vk + 1]
       IN  /\ scoped_markers' = scoped_markers \cup {value}
           /\ arc_device' = Arc_clone(arc_device, value)
           /\ api_log' = Append(api_log, [op |-> "cmd_begin_debug_utils_label",
                                          marker |-> value.id])
    /\ UNCHANGED <<vk_objects, vk_allocations, image_owners, live_buffers, device_drops>>
    /\ UNCHANGED <<negotiationVars, commandVars, markerVars, allocatorVars, submitVars,
                   includeVars, lockVars>>

\* device.rs:864-872 and the drop of the field `device` (:861) after it.
ReleaseScopedMarker(value) ==
    /\ value \in scoped_markers
    /\ scoped_markers' = scoped_markers \ {value}
    /\ ArcDrop(value, Append(api_log, [op |-> "cmd_end_debug_utils_label",
                                       marker |-> value.id]))
    /\ UNCHANGED <<vk_objects, vk_allocations, image_owners, live_buffers, next_vk>>
    /\ UNCHANGED <<negotiationVars, commandVars, markerVars, allocatorVars, submitVars,
                   includeVars, lockVars>>

\* The renderer lets go of the Arc<Device> it created the resources through.
DropOwner ==
    /\ Owner \in arc_device
    /\ ArcDrop(Owner, api_log)
    /\ UNCHANGED <<vk_objects, vk_allocations, image_owners, live_buffers, scoped_markers, next_vk>>
    /\ UNCHANGED <<negotiationVars, commandVars, markerVars, allocatorVars, submitVars,
                   includeVars, lockVars>>

ResourceInit ==
    /\ vk_objects = {}
    /\ vk_allocations = {}
    /\ image_owners = {}
    /\ live_buffers = {}
    /\ scoped_markers = {}
    /\ arc_device = {Owner}
    /\ api_log = << >>
    /\ device_drops = 0
    /\ next_vk = 0

CreateOutcomes == {"create_err", "alloc_err", "bind_err", "ok"}

NextResource ==
    \/ \E ok \in BOOLEAN : AllocMemory(AllocationResource_None, ok)
    \/ \E outcome \in CreateOutcomes : CreateImage(outcome)
    \/ \E fn \in {"create_buffer", "create_buffer_typed"}, outcome \in CreateOutcomes :
           CreateBuffer(fn, outcome)
    \/ \E pair \in image_owners, free_ok \in BOOLEAN : DestroyImage(pair, free_ok)
    \/ \E value \in live_buffers, free_ok \in BOOLEAN : DropBuffer(value, free_ok)
    \/ HoldScopedMarker
    \/ \E value \in scoped_markers : ReleaseScopedMarker(value)
    \/ DropOwner

Logged(op) == { i \in DOMAIN api_log : api_log[i].op = op }

\* C12: the allocation scheme is a function of the resource kind only:
\* DedicatedImage for Image, DedicatedBuffer for Buffer, the allocator-managed
\* scheme for None.  create_buffer and create_buffer_typed allocate with kind
\* Buffer bound to the buffer they created just before, create_image allocates
\* with kind Image bound to the image it created just before.
C12_SchemeByKind ==
    \A i \in Logged("allocate") :
        LET a == api_log[i]
        IN  /\ a.resource = "Image" => a.desc.allocation_scheme = "DedicatedImage"
            /\ a.resource = "Buffer" => a.desc.allocation_scheme = "DedicatedBuffer"
            /\ a.resource = "None" =>
                   /\ a.desc.allocation_scheme = "GpuAllocatorManaged"
                   /\ a.desc.handle = NoObject
            /\ a.by \in {"create_buffer", "create_buffer_typed"} =>
                   /\ a.resource = "Buffer"
                   /\ i > 1 /\ api_log[i - 1].op = "create_buffer"
                   /\ a.desc.handle = api_log[i - 1].object
            /\ a.by = "create_image" =>
                   /\ a.resource = "Image"
                   /\ i > 1 /\ api_log[i - 1].op = "create_image"
                   /\ a.desc.handle = api_log[i - 1].object

\* create_buffer_typed has returned a buffer and a plain alloc_memory of kind
\* None has allocated.
C12_Witness ==
    /\ \E value \in live_buffers : value.type = "BufferTyped"
    /\ \E i \in Logged("allocate") :
           /\ api_log[i].by = "create_buffer_typed"
           /\ api_log[i].desc.allocation_scheme = "DedicatedBuffer"
           /\ api_log[i].ok
    /\ \E i \in Logged("allocate") : api_log[i].resource = "None" /\ api_log[i].ok

\* C14: destroy_image destroys the image handle first and releases the
\* image's allocation right after, each once per call; as long as a caller
\* holds an (image, memory) pair, the image is alive and its allocation has
\* not been released.
C14_HandleThenAllocation ==
    /\ \A i \in Logged("free") :
           api_log[i].by = "destroy_image" =>
               /\ i > 1
               /\ api_log[i - 1].op = "destroy_image"
               /\ \E k \in Logged("allocate") :
                      /\ k < i
                      /\ api_log[k].memory = api_log[i].memory
                      /\ api_log[k].desc.handle = api_log[i - 1].object
               /\ \A j \in Logged("free") : api_log[j].memory = api_log[i].memory => j = i
    /\ \A i \in Logged("destroy_image") :
           /\ i < Len(api_log)
           /\ api_log[i + 1].op = "free"
           /\ api_log[i + 1].by = "destroy_image"
           /\ \A j \in Logged("destroy_image") : api_log[j].object = api_log[i].object => j = i
    /\ \A pair \in image_owners : pair[1] \in vk_objects /\ pair[2] \in vk_allocations

\* An image was destroyed, with a free that failed, while another image is
\* still held.
C14_Witness ==
    /\ \E i \in Logged("free") : api_log[i].by = "destroy_image" /\ ~api_log[i].ok
    /\ image_owners /= {}

\* C15: the device is torn down once and last.  Drop for Device destroys the
\* command pool and then the device, runs at most once, and runs only when no
\* Buffer, BufferTyped or ScopedMarker is alive any more; nothing is called on
\* the device by its users after that.
C15_DeviceTornDownLast ==
    /\ device_drops <= 1
    /\ Cardinality(Logged("destroy_device")) = device_drops
    /\ Cardinality(Logged("destroy_command_pool")) = device_drops
    /\ device_drops = 1 =>
           /\ live_buffers = {}
           /\ scoped_markers = {}
           /\ arc_device = {}
    /\ \A i \in Logged("destroy_device") :
           /\ i > 1
           /\ api_log[i - 1].op = "destroy_command_pool"
           /\ \A j \in (i + 1)..Len(api_log) : api_log[j].op = "drop_field"

\* The device was destroyed by the drop of a Buffer that outlived the
\* renderer's reference and a ScopedMarker.
C15_Witness ==
    /\ device_drops = 1
    /\ \E i \in Logged("destroy_device") :
           /\ i > 3
           /\ api_log[i - 2].op = "free"
           /\ api_log[i - 2].by = "drop_buffer"
    /\ Logged("cmd_end_debug_utils_label") /= {}

(***************************************************************************)
(* 8. The locks of the include callback                                    *)
(***************************************************************************)

\* Bound: include callbacks started in one run.
MaxResolutions == 2

\* Watcher::include_mapping and Watcher::watcher, both parking_lot mutexes.
Locks == {"include_mapping", "watcher"}

guard_dropped_NoInnerBlocks(block) ==
    CASE block = "relative_arm" -> {"include_mapping"}
      [] block = "watch_block" -> {}
      [] block = "insert_block" -> {"include_mapping"}

\* The guard that goes out of scope at the end of each block of the callback:
\* `mapping` with the Relative arm (shader_compiler.rs:29-34), `watcher` with
\* the block at :41-44, `mapping` with the block at :45-52.
guard_dropped(block) ==
    CASE block = "relative_arm" -> {"include_mapping"}
      [] block = "watch_block" -> {"watcher"}
      [] block = "insert_block" -> {"include_mapping"}

\* The lock each waiting position of the callback asks for.
resolver_wants(pc) ==
    CASE pc = "lock_30" -> "include_mapping"
      [] pc = "lock_42" -> "watcher"
      [] pc = "lock_46" -> "include_mapping"
      [] OTHER -> "none"

Mutex(l) == IF l = "include_mapping" THEN include_mapping_mutex ELSE watcher_mutex

\* The two mutexes after `who` acquired and released the given locks.
SetMutexes(who, acquired, released) ==
    /\ include_mapping_mutex' =
           IF "include_mapping" \in acquired THEN who
           ELSE IF "include_mapping" \in released /\ include_mapping_mutex = who
                THEN "unlocked" ELSE include_mapping_mutex
    /\ watcher_mutex' =
           IF "watcher" \in acquired THEN who
           ELSE IF "watcher" \in released /\ watcher_mutex = who
                THEN "unlocked" ELSE watcher_mutex

\* The unlock events of a set of guards, `watcher` declared after `mapping`
\* where both are alive.
Unlocks(released) ==
    (IF "watcher" \in released THEN << << "unlock", "watcher" >> >> ELSE << >>)
    \o (IF "include_mapping" \in released THEN << << "unlock", "include_mapping" >> >>
        ELSE << >>)

ResolverIdle == [pc |-> "idle", include_type |-> "none", held |-> {}, trace |-> << >>,
                 result |-> "none"]
WatcherIdle == [pc |-> "idle", held |-> {}, wants |-> "none"]

\* The resolver leaves a block, returns or unwinds: the guards named are
\* dropped and it goes on at pc `to`.
ResolverLeaves(released, to, result) ==
    LET gone == released \cap resolver.held
    IN  /\ resolver' = [resolver EXCEPT !.pc = to,
                                        !.held = @ \ gone,
                                        !.trace = @ \o Unlocks(gone),
                                        !.result = result]
        /\ SetMutexes("resolver", {}, gone)

\* shader_compiler.rs:27-28: the compiler calls the callback.
ResolverCall(include_type) ==
    /\ resolver.pc = "idle"
    /\ n_resolutions < MaxResolutions
    /\ n_resolutions' = n_resolutions + 1
    /\ resolver' = [pc |-> IF include_type = "Relative" THEN "lock_30" ELSE "read",
                    include_type |-> include_type, held |-> {}, trace |-> << >>,
                    result |-> "none"]
    /\ UNCHANGED <<watcher_thread, include_mapping_mutex, watcher_mutex>>
    /\ UNCHANGED <<negotiationVars, commandVars, markerVars, allocatorVars, submitVars,
                   includeVars, resourceVars>>

\* shader_compiler.rs:30, :42, :46: lock() returns once the mutex is free.
ResolverLock ==
    /\ resolver_wants(resolver.pc) \in Locks
    /\ lock(Mutex(resolver_wants(resolver.pc)))
    /\ LET l == resolver_wants(resolver.pc)
       IN  /\ resolver' = [resolver EXCEPT
                              !.pc = CASE resolver.pc = "lock_30" -> "anchor"
                                       [] resolver.pc = "lock_42" -> "watch"
                                       [] resolver.pc = "lock_46" -> "insert",
                              !.held = @ \cup {l},
                              !.trace = Append(@, << "lock", l >>)]
           /\ SetMutexes("resolver", {l}, {})
    /\ UNCHANGED <<watcher_thread, n_resolutions>>
    /\ UNCHANGED <<negotiationVars, commandVars, markerVars, allocatorVars, submitVars,
                   includeVars, resourceVars>>

\* shader_compiler.rs:31-34: the anchor is looked up under the lock; an
\* unwrap() of None unwinds, which drops every guard alive.
ResolverAnchor(found) ==
    /\ resolver.pc = "anchor"
    /\ IF found
       THEN ResolverLeaves(guard_dropped("relative_arm"), "read", "none")
       ELSE ResolverLeaves(Locks, "panicked", "panic")
    /\ UNCHANGED <<watcher_thread, n_resolutions>>
    /\ UNCHANGED <<negotiationVars, commandVars, markerVars, allocatorVars, submitVars,
                   includeVars, resourceVars>>

\* shader_compiler.rs:38 and :58-60: the file is read with no lock held; a
\* failure returns the Err.
ResolverRead(ok) ==
    /\ resolver.pc = "read"
    /\ IF ok
       THEN ResolverLeaves({}, "lock_42", "none")
       ELSE ResolverLeaves(Locks, "idle", "Err")
    /\ UNCHANGED <<watcher_thread, n_resolutions>>
    /\ UNCHANGED <<negotiationVars, commandVars, markerVars, allocatorVars, submitVars,
                   includeVars, resourceVars>>

\* shader_compiler.rs:43-44: watch() under the watcher lock, then the block ends.
ResolverWatch ==
    /\ resolver.pc = "watch"
    /\ ResolverLeaves(guard_dropped("watch_block"), "lock_46", "none")
    /\ UNCHANGED <<watcher_thread, n_resolutions>>
    /\ UNCHANGED <<negotiationVars, commandVars, markerVars, allocatorVars, submitVars,
                   includeVars, resourceVars>>

\* shader_compiler.rs:47-56: the sources are copied under the lock, the block
\* ends and the callback returns Ok, which ends the life of every local; the
\* index at :48 panics on a missing key.
ResolverInsert(found) ==
    /\ resolver.pc = "insert"
    /\ IF found
       THEN ResolverLeaves(guard_dropped("insert_block") \cup Locks, "idle", "Ok")
       ELSE ResolverLeaves(Locks, "panicked", "panic")
    /\ UNCHANGED <<watcher_thread, n_resolutions>>
    /\ UNCHANGED <<negotiationVars, commandVars, markerVars, allocatorVars, submitVars,
                   includeVars, resourceVars>>

\* The watcher's event thread takes one of the two locks ...
WatcherLockFirst(l) ==
    /\ watcher_thread.pc = "idle"
    /\ lock(Mutex(l))
    /\ watcher_thread' = [pc |-> "one", held |-> {l}, wants |-> "none"]
    /\ SetMutexes("watcher_thread", {l}, {})
    /\ UNCHANGED <<resolver, n_resolutions>>
    /\ UNCHANGED <<negotiationVars, commandVars, markerVars, allocatorVars, submitVars,
                   includeVars, resourceVars>>

\* ... asks for the other one while it holds the first ...
WatcherWantSecond ==
    /\ watcher_thread.pc = "one"
    /\ watcher_thread' = [watcher_thread EXCEPT
                             !.pc = "waiting",
                             !.wants = CHOOSE l \in Locks : l \notin watcher_thread.held]
    /\ UNCHANGED <<resolver, include_mapping_mutex, watcher_mutex, n_resolutions>>
    /\ UNCHANGED <<negotiationVars, commandVars, markerVars, allocatorVars, submitVars,
                   includeVars, resourceVars>>

\* ... gets it once it is free ...
WatcherLockSecond ==
    /\ watcher_thread.pc = "waiting"
    /\ lock(Mutex(watcher_thread.wants))
    /\ watcher_thread' = [pc |-> "both", held |-> Locks, wants |-> "none"]
    /\ SetMutexes("watcher_thread", {watcher_thread.wants}, {})
    /\ UNCHANGED <<resolver, n_resolutions>>
    /\ UNCHANGED <<negotiationVars, commandVars, markerVars, allocatorVars, submitVars,
                   includeVars, resourceVars>>

\* ... and lets go of what it holds.
WatcherUnlock ==
    /\ watcher_thread.pc \in {"one", "both"}
    /\ watcher_thread' = WatcherIdle
    /\ SetMutexes("watcher_thread", {}, watcher_thread.held)
    /\ UNCHANGED <<resolver, n_resolutions>>
    /\ UNCHANGED <<negotiationVars, commandVars, markerVars, allocatorVars, submitVars,
                   includeVars, resourceVars>>

LockInit ==
    /\ resolver = ResolverIdle
    /\ watcher_thread = WatcherIdle
    /\ include_mapping_mutex = "unlocked"
    /\ watcher_mutex = "unlocked"
    /\ n_resolutions = 0

NextLock ==
    \/ \E include_type \in IncludeType : ResolverCall(include_type)
    \/ ResolverLock
    \/ \E found \in BOOLEAN : ResolverAnchor(found)
    \/ \E ok \in BOOLEAN : ResolverRead(ok)
    \/ ResolverWatch
    \/ \E found \in BOOLEAN : ResolverInsert(found)
    \/ \E l \in Locks : WatcherLockFirst(l)
    \/ WatcherWantSecond
    \/ WatcherLockSecond
    \/ WatcherUnlock

\* The lock events of one resolution, in the order the claim gives.
LockOrder(include_type) ==
    (IF include_type = "Relative"
     THEN << << "lock", "include_mapping" >>, << "unlock", "include_mapping" >> >>
     ELSE << >>)
    \o << << "lock", "watcher" >>, << "unlock", "watcher" >>,
          << "lock", "include_mapping" >>, << "unlock", "include_mapping" >> >>

\* The resolver and the watcher thread each hold a lock and wait for the one
\* the other holds.
HoldAndWait ==
    /\ resolver_wants(resolver.pc) \in Locks
    /\ Mutex(resolver_wants(resolver.pc)) = "watcher_thread"
    /\ watcher_thread.pc = "waiting"
    /\ Mutex(watcher_thread.wants) = "resolver"

\* C19: the include callback never holds the watcher lock and the
\* include_mapping lock at the same time.  In one resolution it locks and
\* unlocks include_mapping (relative includes only), then the watcher, then
\* include_mapping again; it holds nothing while it waits for a lock, so with
\* a watcher thread taking the two locks in either order no state has each of
\* the two holding one lock and waiting for the other's.
C19_NoLockHeldAcross ==
    /\ resolver.held /= Locks
    /\ ~(include_mapping_mutex = "resolver" /\ watcher_mutex = "resolver")
    /\ resolver_wants(resolver.pc) \in Locks => resolver.held = {}
    /\ resolver.pc \in {"idle", "panicked", "read"} => resolver.held = {}
    /\ resolver.include_type \in IncludeType =>
           IsPrefix(resolver.trace, LockOrder(resolver.include_type))
    /\ resolver.result = "Ok" => resolver.trace = LockOrder(resolver.include_type)
    /\ ~HoldAndWait

\* A relative include waits for include_mapping at :46, after its first two
\* critical sections, while the watcher thread holds include_mapping and waits
\* for nothing the resolver holds.
C19_Witness ==
    /\ resolver.pc = "lock_46"
    /\ resolver.include_type = "Relative"
    /\ Len(resolver.trace) = 4
    /\ watcher_thread.pc = "waiting"
    /\ include_mapping_mutex = "watcher_thread"
    /\ watcher_thread.wants = "watcher"

Init ==
    /\ NegotiationInit
    /\ CommandInit
    /\ MarkerInit
    /\ AllocatorInit
    /\ SubmitInit
    /\ IncludeInit
    /\ ResourceInit
    /\ LockInit

SpecNegotiation == Init /\ [][NextNegotiation]_vars
SpecCommand == Init /\ [][NextCommand]_vars
SpecMarker == Init /\ [][NextMarker]_vars
SpecAllocator == Init /\ [][NextAllocator]_vars
SpecSubmit == Init /\ [][NextSubmit]_vars
SpecInclude == Init /\ [][NextInclude]_vars
SpecResource == Init /\ [][NextResource]_vars
SpecLock == Init /\ [][NextLock]_vars

====
